---------------------------- MODULE Spec2Model ----------------------------
(***************************************************************************)
(* The symmetric cipher context of openssl/src/cipher_ctx.rs.              *)
(*                                                                         *)
(* Two layers:                                                             *)
(*   - the wrapper (CipherCtxRef's methods): argument checks that panic,   *)
(*     the call into the engine, and the conversion of the engine's        *)
(*     return code into Ok / Err.  Translated from cipher_ctx.rs.          *)
(*   - the primitive engine behind the ffi:: calls (EVP).  Its code is     *)
(*     not part of the source files; it is modelled from the description   *)
(*     in spec.md (sections 3, 4.1 and 6) over toy ciphers: a stream       *)
(*     cipher, a chained block cipher with padding, and an authenticated   *)
(*     stream cipher.                                                      *)
(***************************************************************************)
EXTENDS Integers, Sequences, FiniteSets, TLC

VARIABLES
    ctx,    \* the EVP_CIPHER_CTX owned by the CipherCtx
    last,   \* the last call: its arguments, what it returned, and what the
            \* context was bound to before it
    cyc,    \* history of the operation since the last successful init
    prev,   \* history of the operation completed before the last init
    twin,   \* a second, freshly constructed CipherCtx (reuse comparison)
    tlast,  \* the last call on twin
    mode    \* "solo": calls go to ctx; "pair": the same calls go to ctx and twin

vars == <<ctx, last, cyc, prev, twin, tlast, mode>>

----------------------------------------------------------------------------
(* Bounds of the model *)

\* longest input of one cipher_update call
MaxIn == 1
\* most bytes fed to cipher_update (with an output) between two inits
MaxData == 2
\* longest key or IV buffer a caller passes
MaxKeyBuf == 2
\* most bytes of additional authenticated data fed between two inits
MaxChunk == 2
MaxPlain == 3
MaxAad == 1

----------------------------------------------------------------------------
(* Values *)

\* bytes are counted modulo 3; callers pass plaintext and keys over {0, 1}
Byte == {0, 1, 2}
DataByte == {0, 1}
KeyByte == {0, 1}
ByteMod == Cardinality(Byte)

SeqsUpTo(S, n) == UNION {[1..k -> S] : k \in 0..n}

None == [some |-> FALSE, v |-> <<>>]
Some(x) == [some |-> TRUE, v |-> x]
NoOut == [some |-> FALSE, len |-> 0]
OutBuf(n) == [some |-> TRUE, len |-> n]

RECURSIVE Sum(_)
Sum(s) == IF s = <<>> THEN 0 ELSE Head(s) + Sum(Tail(s))

Take(s, n) == SubSeq(s, 1, n)
Drop(s, n) == SubSeq(s, n + 1, Len(s))
Min(a, b) == IF a <= b THEN a ELSE b

\* c_int::try_from(len).unwrap() succeeds
CIntMax == 2147483647
FitsCInt(n) == n <= CIntMax

----------------------------------------------------------------------------
(* Cipher descriptors (spec.md section 3, CipherDescriptor) *)

CipherNames == {"stream", "block", "aead"}

Cipher(name) ==
    CASE name = "stream" -> [block_size |-> 1, key_len |-> 1, iv_len |-> 1,
                             aead |-> FALSE, max_key |-> 2, max_iv |-> 1]
      [] name = "block"  -> [block_size |-> 2, key_len |-> 2, iv_len |-> 2,
                             aead |-> FALSE, max_key |-> 2, max_iv |-> 2]
      [] name = "aead"   -> [block_size |-> 1, key_len |-> 1, iv_len |-> 1,
                             aead |-> TRUE, max_key |-> 1, max_iv |-> 2]

\* longest tag the authenticated cipher produces
TagLen == 1

----------------------------------------------------------------------------
(* The engine's context (spec.md section 3, CipherContext) *)

NewCtx ==
    [cipher  |-> "none",            \* bound_descriptor
     dir     |-> "Uninitialized",   \* direction
     key_len |-> 0,
     iv_len  |-> 0,
     key_set |-> FALSE,             \* key_configured
     iv_set  |-> FALSE,             \* iv_configured
     key     |-> <<>>,
     iv      |-> <<>>,
     padding |-> TRUE,              \* padding_enabled
     buf     |-> <<>>,              \* partial block not yet processed
     held    |-> <<>>,              \* decrypted last block held back for unpadding
     chain   |-> <<>>,              \* chaining value of the block cipher
     pos     |-> 0,                 \* total_bytes_consumed
     mac     |-> 0,                 \* running authentication value
     tag     |-> <<>>,              \* expected tag (decrypt) or computed tag (encrypt)
     tag_set |-> FALSE,
     fin     |-> FALSE]             \* Finalized

Bound(c) == c.cipher # "none"
Desc(c) == Cipher(c.cipher)

\* Ready(dir): a descriptor, a direction, key and IV are configured and the
\* operation has not been finalized
Ready(c) ==
    /\ Bound(c)
    /\ c.dir # "Uninitialized"
    /\ c.key_set
    /\ c.iv_set \/ c.iv_len = 0
    /\ ~c.fin

KeyVal(c) == Sum(c.key) % ByteMod
IvVal(c) == Sum(c.iv) % ByteMod

\* the toy stream cipher: byte at absolute position p
KeyStream(c, p) == (KeyVal(c) + IvVal(c) + p) % ByteMod
StreamEnc(c, input) ==
    [i \in 1..Len(input) |-> (input[i] + KeyStream(c, c.pos + i - 1)) % ByteMod]
StreamDec(c, input) ==
    [i \in 1..Len(input) |->
        (input[i] + ByteMod - KeyStream(c, c.pos + i - 1)) % ByteMod]

\* the toy block cipher: one block under the key
BlockE(c, x) ==
    [i \in 1..Len(x) |-> (x[Len(x) + 1 - i] + KeyVal(c) + i) % ByteMod]
BlockD(c, y) ==
    [j \in 1..Len(y) |->
        (y[Len(y) + 1 - j] + 2 * ByteMod * Len(y) - KeyVal(c) - (Len(y) + 1 - j))
            % ByteMod]
AddBlock(x, y) == [i \in 1..Len(x) |-> (x[i] + y[i]) % ByteMod]
SubBlock(x, y) == [i \in 1..Len(x) |-> (x[i] + ByteMod - y[i]) % ByteMod]

InitChain(c, iv) ==
    [i \in 1..Desc(c).block_size |->
        IF iv = <<>> THEN 0 ELSE iv[((i - 1) % Len(iv)) + 1]]

\* chained encryption / decryption of whole blocks: [out, chain]
RECURSIVE EncBlocks(_, _, _)
EncBlocks(c, chain, data) ==
    IF Len(data) < Desc(c).block_size THEN [out |-> <<>>, chain |-> chain]
    ELSE LET bs == Desc(c).block_size
             y == BlockE(c, AddBlock(Take(data, bs), chain))
             r == EncBlocks(c, y, Drop(data, bs))
         IN [out |-> y \o r.out, chain |-> r.chain]

RECURSIVE DecBlocks(_, _, _)
DecBlocks(c, chain, data) ==
    IF Len(data) < Desc(c).block_size THEN [out |-> <<>>, chain |-> chain]
    ELSE LET bs == Desc(c).block_size
             y == Take(data, bs)
             p == SubBlock(BlockD(c, y), chain)
             r == DecBlocks(c, y, Drop(data, bs))
         IN [out |-> p \o r.out, chain |-> r.chain]

\* the authentication value after more bytes
RECURSIVE MacFeed(_, _)
MacFeed(m, s) ==
    IF s = <<>> THEN m ELSE MacFeed((m + Head(s) + 1) % ByteMod, Tail(s))

\* the full-length tag of the finished operation
TagOf(c, m) ==
    [i \in 1..TagLen |-> (i * m + KeyVal(c) + IvVal(c) + i) % ByteMod]

----------------------------------------------------------------------------
(* The engine's operations (spec.md sections 4.1 and 6).  Each returns the  *)
(* engine's return code ret (1 success, 0 failure) and the context after   *)
(* the call.  fault is a failure inside the provider (allocation,          *)
(* arithmetic): it can strike any call and leaves the context as it was.   *)

Fail(c) == [ret |-> 0, ctx |-> c, out |-> <<>>]

\* the per-operation state every successful init resets
\* mutant of ResetOp: init leaves the tag state as it was
M_ResetOp_keeptag(c) ==
    [c EXCEPT !.buf = <<>>, !.held = <<>>, !.pos = 0, !.mac = 0, !.fin = FALSE,
              !.chain = IF Bound(c) THEN InitChain(c, c.iv) ELSE <<>>]

ResetOp(c) ==
    [c EXCEPT !.buf = <<>>, !.held = <<>>, !.pos = 0, !.mac = 0,
              !.tag = <<>>, !.tag_set = FALSE, !.fin = FALSE,
              !.chain = IF Bound(c) THEN InitChain(c, c.iv) ELSE <<>>]

\* binding a descriptor configures its default lengths and clears key and IV
BindCipher(c, type) ==
    IF type = "none" THEN c
    ELSE [c EXCEPT !.cipher = type,
                   !.key_len = Cipher(type).key_len,
                   !.iv_len = Cipher(type).iv_len,
                   !.key_set = FALSE, !.key = <<>>,
                   !.iv_set = FALSE, !.iv = <<>>]

\* EVP_EncryptInit_ex / EVP_DecryptInit_ex: init(direction, descriptor?, key?, iv?)
EVP_CipherInit_ex(c, type, key, iv, dir, fault) ==
    IF fault \/ (type = "none" /\ ~Bound(c)) THEN Fail(c)
    ELSE LET c1 == BindCipher(c, type)
             c2 == IF key.some
                   THEN [c1 EXCEPT !.key = Take(key.v, Min(c1.key_len, Len(key.v))),
                                   !.key_set = TRUE]
                   ELSE c1
             c3 == IF iv.some
                   THEN [c2 EXCEPT !.iv = Take(iv.v, Min(c2.iv_len, Len(iv.v))),
                                   !.iv_set = TRUE]
                   ELSE c2
         IN [ret |-> 1, ctx |-> ResetOp([c3 EXCEPT !.dir = dir]), out |-> <<>>]

EVP_CIPHER_CTX_block_size(c) == Desc(c).block_size
EVP_CIPHER_CTX_key_length(c) == c.key_len
EVP_CIPHER_CTX_iv_length(c) == c.iv_len

\* only some ciphers support configurable key lengths
EVP_CIPHER_CTX_set_key_length(c, len, fault) ==
    IF fault \/ ~Bound(c) \/ len < 1 \/ len > Desc(c).max_key THEN Fail(c)
    ELSE IF len = c.key_len THEN [ret |-> 1, ctx |-> c, out |-> <<>>]
    ELSE [ret |-> 1, out |-> <<>>,
          ctx |-> [c EXCEPT !.key_len = len, !.key_set = FALSE, !.key = <<>>]]

\* EVP_CIPHER_CTX_ctrl(SET_IVLEN): only some ciphers support configurable IV lengths
EVP_CTRL_SET_IVLEN(c, len, fault) ==
    IF fault \/ ~Bound(c) \/ len < 1 \/ len > Desc(c).max_iv THEN Fail(c)
    ELSE IF len = c.iv_len THEN [ret |-> 1, ctx |-> c, out |-> <<>>]
    ELSE [ret |-> 1, out |-> <<>>,
          ctx |-> [c EXCEPT !.iv_len = len, !.iv_set = FALSE, !.iv = <<>>]]

EVP_CIPHER_CTX_set_padding(c, padding) == [c EXCEPT !.padding = padding]

\* EVP_CIPHER_CTX_ctrl(SET_TAG, len, tag): the expected tag of a decrypting AEAD context
EVP_CTRL_SET_TAG(c, tag, fault) ==
    IF \/ fault
       \/ ~Bound(c)
       \/ ~Desc(c).aead
       \/ c.dir # "Decrypting"
       \/ c.fin
       \/ Len(tag) < 1
       \/ Len(tag) > TagLen
    THEN Fail(c)
    ELSE [ret |-> 1, out |-> <<>>, ctx |-> [c EXCEPT !.tag = tag, !.tag_set = TRUE]]

\* EVP_CIPHER_CTX_ctrl(GET_TAG, len, buf): the computed tag, after an encrypting final
EVP_CTRL_GET_TAG(c, len, fault) ==
    IF \/ fault
       \/ ~Bound(c)
       \/ ~Desc(c).aead
       \/ c.dir # "Encrypting"
       \/ ~c.fin
       \/ len < 1
       \/ len > TagLen
    THEN Fail(c)
    ELSE [ret |-> 1, ctx |-> c, out |-> Take(c.tag, len)]

\* EVP_CIPHER_CTX_rand_key: a random key of the configured length (rand)
EVP_CIPHER_CTX_rand_key(c, rand, fault) ==
    IF fault \/ ~Bound(c) THEN Fail(c)
    ELSE [ret |-> 1, ctx |-> c, out |-> Take(rand, c.key_len)]

\* EVP_CIPHER_CTX_get_tag_length: 0 if the cipher is not authenticated
EVP_CIPHER_CTX_get_tag_length(c) == IF Desc(c).aead THEN TagLen ELSE 0

\* recipient key pairs: a public key and its private key carry the same number
PKeys == {1, 2}
\* EVP_PKEY_size: the largest output of an encryption under the key
PKeySize(p) == 2 + p
\* the session key encrypted under public key p
Wrap(p, k) == <<p>> \o [j \in 1..Len(k) |-> (k[j] + p) % ByteMod]
\* private key p decrypts only what was encrypted under its public key
CanUnwrap(p, ek) == Len(ek) >= 1 /\ ek[1] = p
\* mutant of Unwrap: the encrypted bytes are taken for the key
M_Unwrap_raw(p, ek) == [j \in 1..(Len(ek) - 1) |-> ek[j + 1]]
Unwrap(p, ek) == [j \in 1..(Len(ek) - 1) |-> (ek[j + 1] + ByteMod - p) % ByteMod]

SealFail(c) == [ret |-> 0, ctx |-> c, ek |-> <<>>, iv |-> <<>>]

\* EVP_SealInit(ctx, type, ek, ekl, iv, pubk, npubk): binds the cipher if one is
\* given; with recipients, generates the session key and IV (rand), starts the
\* encryption and encrypts the session key under every public key, in order
EVP_SealInit(c, type, pubk, rand, fault) ==
    IF fault THEN SealFail(c)
    ELSE LET i1 == IF type # "none"
                   THEN EVP_CipherInit_ex(c, type, None, None, "Encrypting", FALSE)
                   ELSE [ret |-> 1, ctx |-> c, out |-> <<>>]
             c1 == i1.ctx
         IN IF i1.ret <= 0 THEN SealFail(c)
            ELSE IF pubk = <<>> THEN [ret |-> 1, ctx |-> c1, ek |-> <<>>, iv |-> <<>>]
            ELSE IF ~Bound(c1) THEN SealFail(c1)
            ELSE LET key == Take(rand.key, c1.key_len)
                     iv == Take(rand.iv, c1.iv_len)
                     i2 == EVP_CipherInit_ex(c1, "none", Some(key), Some(iv),
                                             "Encrypting", FALSE)
                 IN [ret |-> Len(pubk), ctx |-> i2.ctx,
                     ek |-> [i \in 1..Len(pubk) |-> Wrap(pubk[i], key)],
                     iv |-> iv]

\* EVP_OpenInit(ctx, type, ek, ekl, iv, priv): binds the cipher if one is given;
\* with a private key, decrypts the session key and starts the decryption
EVP_OpenInit(c, type, ek, iv, priv, fault) ==
    IF fault THEN Fail(c)
    ELSE LET i1 == IF type # "none"
                   THEN EVP_CipherInit_ex(c, type, None, None, "Decrypting", FALSE)
                   ELSE [ret |-> 1, ctx |-> c, out |-> <<>>]
             c1 == i1.ctx
         IN IF i1.ret <= 0 THEN Fail(c)
            ELSE IF ~priv.some THEN [ret |-> 1, ctx |-> c1, out |-> <<>>]
            ELSE IF ~Bound(c1) \/ ~CanUnwrap(priv.v, ek) THEN Fail(c1)
            ELSE LET key == Unwrap(priv.v, ek)
                     sk == EVP_CIPHER_CTX_set_key_length(c1, Len(key), FALSE)
                 IN IF sk.ret <= 0 THEN Fail(c1)
                    ELSE EVP_CipherInit_ex(sk.ctx, "none", Some(key), iv,
                                           "Decrypting", FALSE)

\* stream-update of a stream cipher (authenticated or not)
StreamUpdate(c, input) ==
    LET o == IF c.dir = "Encrypting" THEN StreamEnc(c, input) ELSE StreamDec(c, input)
        ct == IF c.dir = "Encrypting" THEN o ELSE input
    IN [ret |-> 1, out |-> o,
        ctx |-> [c EXCEPT !.pos = c.pos + Len(input),
                          !.mac = IF Desc(c).aead THEN MacFeed(c.mac, ct) ELSE c.mac]]

\* mutant of BlockUpdate: the partial block left by the previous call is dropped
M_BlockUpdate_nocarry(c, input) ==
    LET bs == Desc(c).block_size
        data == input
        whole == Len(data) - (Len(data) % bs)
        rest == Drop(data, whole)
    IN IF c.dir = "Encrypting"
       THEN LET r == EncBlocks(c, c.chain, Take(data, whole))
            IN [ret |-> 1, out |-> r.out,
                ctx |-> [c EXCEPT !.buf = rest, !.chain = r.chain,
                                  !.pos = c.pos + Len(input)]]
       ELSE LET r == DecBlocks(c, c.chain, Take(data, whole))
                all == c.held \o r.out
                hold == c.padding /\ rest = <<>> /\ Len(all) >= bs
                n == IF hold THEN Len(all) - bs ELSE Len(all)
            IN [ret |-> 1, out |-> Take(all, n),
                ctx |-> [c EXCEPT !.buf = rest, !.chain = r.chain,
                                  !.held = Drop(all, n),
                                  !.pos = c.pos + Len(input)]]

\* stream-update of the block cipher: whole blocks are processed, the rest is kept;
\* a decrypting context with padding holds the last whole block back for the final
BlockUpdate(c, input) ==
    LET bs == Desc(c).block_size
        data == c.buf \o input
        whole == Len(data) - (Len(data) % bs)
        rest == Drop(data, whole)
    IN IF c.dir = "Encrypting"
       THEN LET r == EncBlocks(c, c.chain, Take(data, whole))
            IN [ret |-> 1, out |-> r.out,
                ctx |-> [c EXCEPT !.buf = rest, !.chain = r.chain,
                                  !.pos = c.pos + Len(input)]]
       ELSE LET r == DecBlocks(c, c.chain, Take(data, whole))
                all == c.held \o r.out
                hold == c.padding /\ rest = <<>> /\ Len(all) >= bs
                n == IF hold THEN Len(all) - bs ELSE Len(all)
            IN [ret |-> 1, out |-> Take(all, n),
                ctx |-> [c EXCEPT !.buf = rest, !.chain = r.chain,
                                  !.held = Drop(all, n),
                                  !.pos = c.pos + Len(input)]]

\* EVP_CipherUpdate(ctx, out, &outl, in, inl); hasOut is FALSE for a null out:
\* the input is then additional authenticated data of an AEAD mode
EVP_CipherUpdate(c, hasOut, input, fault) ==
    IF fault \/ ~Ready(c) THEN Fail(c)
    ELSE IF ~hasOut
    THEN IF Desc(c).aead /\ c.pos = 0
         THEN [ret |-> 1, out |-> <<>>,
               ctx |-> [c EXCEPT !.mac = MacFeed(c.mac, input)]]
         ELSE Fail(c)
    ELSE IF Desc(c).block_size = 1 THEN StreamUpdate(c, input)
    ELSE BlockUpdate(c, input)

\* the padding block: n bytes of value n fill the block
PadBlock(buf, bs) == buf \o [i \in 1..(bs - Len(buf)) |-> bs - Len(buf)]

\* a held, decrypted last block carries valid padding
PadOk(blk, bs) ==
    /\ Len(blk) = bs
    /\ blk[bs] \in 1..bs
    /\ \A i \in (bs - blk[bs] + 1)..bs : blk[i] = blk[bs]

\* finalize of the block cipher: flush, applying or validating padding
BlockFinal(c) ==
    LET bs == Desc(c).block_size IN
    IF c.dir = "Encrypting"
    THEN IF c.padding
         THEN LET r == EncBlocks(c, c.chain, PadBlock(c.buf, bs))
              IN [ret |-> 1, out |-> r.out,
                  ctx |-> [c EXCEPT !.buf = <<>>, !.chain = r.chain, !.fin = TRUE]]
         ELSE IF c.buf = <<>>
              THEN [ret |-> 1, out |-> <<>>, ctx |-> [c EXCEPT !.fin = TRUE]]
              ELSE Fail(c)
    ELSE IF c.buf # <<>> THEN Fail(c)
    ELSE IF ~c.padding
         THEN [ret |-> 1, out |-> <<>>,
               ctx |-> [c EXCEPT !.held = <<>>, !.fin = TRUE]]
    ELSE IF PadOk(c.held, bs)
         THEN [ret |-> 1, out |-> Take(c.held, bs - c.held[bs]),
               ctx |-> [c EXCEPT !.held = <<>>, !.fin = TRUE]]
    ELSE Fail(c)

\* finalize of the authenticated cipher: compute the tag (encrypt) or verify
\* the expected tag (decrypt); no bytes are written
AeadFinal(c) ==
    IF c.dir = "Encrypting"
    THEN [ret |-> 1, out |-> <<>>,
          ctx |-> [c EXCEPT !.tag = TagOf(c, c.mac), !.tag_set = TRUE, !.fin = TRUE]]
    ELSE IF c.tag_set /\ c.tag = Take(TagOf(c, c.mac), Len(c.tag))
         THEN [ret |-> 1, out |-> <<>>, ctx |-> [c EXCEPT !.fin = TRUE]]
         ELSE Fail(c)

\* EVP_CipherFinal(ctx, out, &outl)
EVP_CipherFinal(c, fault) ==
    IF fault \/ ~Ready(c) THEN Fail(c)
    ELSE IF Desc(c).aead THEN AeadFinal(c)
    ELSE IF Desc(c).block_size = 1
         THEN [ret |-> 1, out |-> <<>>, ctx |-> [c EXCEPT !.fin = TRUE]]
    ELSE BlockFinal(c)

----------------------------------------------------------------------------
(* The wrapper: CipherCtxRef's methods.  Each returns                      *)
(*   res    "Ok", "Err" (the engine's error, returned to the caller) or    *)
(*          "Panic" (a failed assertion: a fatal contract violation),      *)
(*   ctx    the context after the call,                                    *)
(*   n      the number of bytes reported written,                          *)
(*   out    the bytes written to the caller's buffer,                      *)
(*   engine whether the engine was called.                                 *)

Panic(c) == [res |-> "Panic", ctx |-> c, n |-> 0, out |-> <<>>, engine |-> FALSE]

\* cvt(r)?: a return code <= 0 is the engine's error
cvt(r) ==
    [res |-> IF r.ret <= 0 THEN "Err" ELSE "Ok", ctx |-> r.ctx,
     n |-> IF r.ret <= 0 THEN 0 ELSE Len(r.out),
     out |-> r.out, engine |-> TRUE]

\* mutant of assert_cipher: the check is missing
M_assert_cipher_none(c) == TRUE

\* assert!(!EVP_CIPHER_CTX_get0_cipher(self.as_ptr()).is_null()) passes
assert_cipher(c) == Bound(c)

\* block_size(), key_length(), iv_length(): the value, or -1 for the panic
block_size(c) == IF assert_cipher(c) THEN EVP_CIPHER_CTX_block_size(c) ELSE -1
key_length(c) == IF assert_cipher(c) THEN EVP_CIPHER_CTX_key_length(c) ELSE -1
iv_length(c) == IF assert_cipher(c) THEN EVP_CIPHER_CTX_iv_length(c) ELSE -1

\* mutant of EffKeyLen: the bound descriptor's default, not the configured length
M_EffKeyLen_default(c, type) ==
    IF type # "none" THEN Cipher(type).key_len
    ELSE IF Bound(c) THEN Desc(c).key_len ELSE -1
\* type_.map_or_else(|| self.key_length(), |c| c.key_length())
EffKeyLen(c, type) == IF type = "none" THEN key_length(c) ELSE Cipher(type).key_len
\* mutant of EffIvLen: the bound descriptor's default, not the configured length
M_EffIvLen_default(c, type) ==
    IF type # "none" THEN Cipher(type).iv_len
    ELSE IF Bound(c) THEN Desc(c).iv_len ELSE -1
EffIvLen(c, type) == IF type = "none" THEN iv_length(c) ELSE Cipher(type).iv_len

cipher_init(c, type, key, iv, dir, fault) ==
    IF key.some /\ (EffKeyLen(c, type) < 0 \/ ~(EffKeyLen(c, type) <= Len(key.v)))
    THEN Panic(c)
    ELSE IF iv.some /\ (EffIvLen(c, type) < 0 \/ ~(EffIvLen(c, type) <= Len(iv.v)))
    THEN Panic(c)
    ELSE cvt(EVP_CipherInit_ex(c, type, key, iv, dir, fault))

encrypt_init(c, type, key, iv, fault) ==
    cipher_init(c, type, key, iv, "Encrypting", fault)

\* mutant of decrypt_init: the direction flag of encrypt_init is passed
M_decrypt_init_enc(c, type, key, iv, fault) ==
    cipher_init(c, type, key, iv, "Encrypting", fault)

decrypt_init(c, type, key, iv, fault) ==
    cipher_init(c, type, key, iv, "Decrypting", fault)

\* i32::try_from(len).unwrap() does not panic.  The width of i32 is scaled
\* to the model's recipient lists: the count of MaxRecip recipients fits, a
\* longer list's does not.
I32Max == 2
FitsI32(n) == n <= I32Max

\* Vec::resize(n, 0) and Vec::truncate(n)
Resize(buf, n) == [i \in 1..n |-> IF i <= Len(buf) THEN buf[i] ELSE 0]
\* mutant of Truncate: the slot keeps the size it was resized to
M_Truncate_keep(buf, n) == buf
Truncate(buf, n) == IF n < Len(buf) THEN Take(buf, n) ELSE buf

\* the engine writes w at the start of buffer buf
WriteInto(buf, w) == [i \in 1..Len(buf) |-> IF i <= Len(w) THEN w[i] ELSE buf[i]]

\* mutant of SealLenOk: the slices are not compared
M_SealLenOk_any(pub_keys, encrypted_keys) == TRUE
\* assert_eq!(pub_keys.len(), encrypted_keys.len()) passes
SealLenOk(pub_keys, encrypted_keys) == Len(pub_keys) = Len(encrypted_keys)

\* iv.map_or(0, |b| b.len())
IvBufLen(iv) == IF iv.some THEN Len(iv.v) ELSE 0

\* mutant of SealIvOk: the IV buffer is checked only when one is passed
M_SealIvOk_some(c, type, pub_keys, iv) ==
    pub_keys # <<>> /\ iv.some
        => EffIvLen(c, type) >= 0 /\ IvBufLen(iv) >= EffIvLen(c, type)
\* the checks made if !pub_keys.is_empty() pass
SealIvOk(c, type, pub_keys, iv) ==
    pub_keys # <<>> => EffIvLen(c, type) >= 0 /\ IvBufLen(iv) >= EffIvLen(c, type)

\* the outcome of seal_init: as the other methods', with the caller's
\* encrypted_keys and iv buffers as the call leaves them
SealResult(res, c, engine, encrypted_keys, iv) ==
    [res |-> res, ctx |-> c, n |-> 0, out |-> <<>>, engine |-> engine,
     eks |-> encrypted_keys, iv |-> iv]

seal_init(c, type, pub_keys, encrypted_keys, iv, rand, fault) ==
    IF ~SealLenOk(pub_keys, encrypted_keys)
    THEN SealResult("Panic", c, FALSE, encrypted_keys, iv)
    ELSE IF ~SealIvOk(c, type, pub_keys, iv)
    THEN SealResult("Panic", c, FALSE, encrypted_keys, iv)
    ELSE LET zip == Min(Len(pub_keys), Len(encrypted_keys))
             resized == [i \in 1..Len(encrypted_keys) |->
                            IF i <= zip
                            THEN Resize(encrypted_keys[i], PKeySize(pub_keys[i]))
                            ELSE encrypted_keys[i]]
         IN IF ~FitsI32(Len(pub_keys))
            THEN SealResult("Panic", c, FALSE, resized, iv)
            ELSE LET r == EVP_SealInit(c, type, pub_keys, rand, fault)
                 IN IF r.ret <= 0
                    THEN SealResult("Err", r.ctx, TRUE, resized, iv)
                    ELSE SealResult("Ok", r.ctx, TRUE,
                           [i \in 1..Len(resized) |->
                               IF i <= Len(r.ek)
                               THEN Truncate(WriteInto(resized[i], r.ek[i]), Len(r.ek[i]))
                               ELSE resized[i]],
                           IF iv.some THEN Some(WriteInto(iv.v, r.iv)) ELSE iv)

\* mutant of OpenIvOk: the IV is checked only when one is passed
M_OpenIvOk_some(c, type, iv, priv_key) ==
    priv_key.some /\ iv.some
        => EffIvLen(c, type) >= 0 /\ IvBufLen(iv) >= EffIvLen(c, type)
\* the checks made if priv_key.is_some() pass
OpenIvOk(c, type, iv, priv_key) ==
    priv_key.some => EffIvLen(c, type) >= 0 /\ IvBufLen(iv) >= EffIvLen(c, type)

\* mutant of open_init: the checks are made once the engine has returned
M_open_init_late(c, type, encrypted_key, iv, priv_key, fault) ==
    LET r == cvt(EVP_OpenInit(c, type, encrypted_key, iv, priv_key, fault))
    IN IF ~OpenIvOk(c, type, iv, priv_key) \/ ~FitsCInt(Len(encrypted_key))
       THEN [Panic(r.ctx) EXCEPT !.engine = TRUE]
       ELSE r

open_init(c, type, encrypted_key, iv, priv_key, fault) ==
    IF ~OpenIvOk(c, type, iv, priv_key) THEN Panic(c)
    ELSE IF ~FitsCInt(Len(encrypted_key)) THEN Panic(c)
    ELSE cvt(EVP_OpenInit(c, type, encrypted_key, iv, priv_key, fault))

set_key_length(c, len, fault) ==
    IF ~assert_cipher(c) \/ ~FitsCInt(len) THEN Panic(c)
    ELSE cvt(EVP_CIPHER_CTX_set_key_length(c, len, fault))

set_iv_length(c, len, fault) ==
    IF ~assert_cipher(c) \/ ~FitsCInt(len) THEN Panic(c)
    ELSE cvt(EVP_CTRL_SET_IVLEN(c, len, fault))

\* mutant of tag: the engine's return code is not looked at
M_tag_unchecked(c, len, fault) ==
    IF ~FitsCInt(len) THEN Panic(c)
    ELSE [cvt(EVP_CTRL_GET_TAG(c, len, fault)) EXCEPT !.res = "Ok"]

tag(c, len, fault) ==
    IF ~FitsCInt(len) THEN Panic(c)
    ELSE cvt(EVP_CTRL_GET_TAG(c, len, fault))

\* tag_length(): the value, or -1 for the panic
tag_length(c) == IF assert_cipher(c) THEN EVP_CIPHER_CTX_get_tag_length(c) ELSE -1

\* what the caller of block_size(), key_length(), iv_length() or tag_length()
\* gets: the value v, or the panic
Getter(c, v) ==
    IF v < 0 THEN Panic(c)
    ELSE [res |-> "Ok", ctx |-> c, n |-> v, out |-> <<>>, engine |-> TRUE]

\* mutant of rand_key: the buffer is handed to the engine unchecked
M_rand_key_nocheck(c, buflen, rand, fault) ==
    cvt(EVP_CIPHER_CTX_rand_key(c, rand, fault))

\* rand_key(buf) with a buffer of buflen bytes
rand_key(c, buflen, rand, fault) ==
    IF key_length(c) < 0 \/ ~(buflen >= key_length(c)) THEN Panic(c)
    ELSE cvt(EVP_CIPHER_CTX_rand_key(c, rand, fault))

\* mutant of set_tag: the length is passed, the tag's bytes are not
M_set_tag_zeroed(c, t, fault) ==
    IF ~FitsCInt(Len(t)) THEN Panic(c)
    ELSE cvt(EVP_CTRL_SET_TAG(c, [i \in 1..Len(t) |-> 0], fault))

set_tag(c, t, fault) ==
    IF ~FitsCInt(Len(t)) THEN Panic(c)
    ELSE cvt(EVP_CTRL_SET_TAG(c, t, fault))

\* mutant of set_padding: the call never reaches the engine's flag
M_set_padding_ignored(c, padding) ==
    [res |-> "Ok", ctx |-> c, n |-> 0, out |-> <<>>, engine |-> FALSE]

set_padding(c, padding) ==
    [res |-> "Ok", ctx |-> EVP_CIPHER_CTX_set_padding(c, padding),
     n |-> 0, out |-> <<>>, engine |-> TRUE]

\* mutants of EffBlockSize: every cipher treated as a stream cipher; no
\* exception for stream ciphers
M_EffBlockSize_zero(c) == 0
M_EffBlockSize_raw(c) == block_size(c)

\* the block size the output check of cipher_update adds to input.len()
EffBlockSize(c) == IF block_size(c) = 1 THEN 0 ELSE block_size(c)

\* mutant of cipher_update: the engine's return code is not converted
M_cipher_update_unchecked(c, input, output, fault) ==
    IF output.some /\ block_size(c) < 0 THEN Panic(c)
    ELSE IF output.some /\ ~(output.len >= Len(input) + EffBlockSize(c)) THEN Panic(c)
    ELSE [cvt(EVP_CipherUpdate(c, output.some, input, fault)) EXCEPT !.res = "Ok"]

cipher_update(c, input, output, fault) ==
    IF ~FitsCInt(Len(input)) THEN Panic(c)
    ELSE IF output.some /\ block_size(c) < 0 THEN Panic(c)
    ELSE IF output.some /\ ~(output.len >= Len(input) + EffBlockSize(c)) THEN Panic(c)
    ELSE cvt(EVP_CipherUpdate(c, output.some, input, fault))

\* mutant of cipher_final: the engine's return code is not converted
M_cipher_final_unchecked(c, output, fault) ==
    IF block_size(c) < 0 THEN Panic(c)
    ELSE IF block_size(c) > 1 /\ ~(output.len >= block_size(c)) THEN Panic(c)
    ELSE [cvt(EVP_CipherFinal(c, fault)) EXCEPT !.res = "Ok"]

\* mutant of cipher_final: the output buffer is not checked
M_cipher_final_nocheck(c, output, fault) ==
    IF block_size(c) < 0 THEN Panic(c)
    ELSE cvt(EVP_CipherFinal(c, fault))

cipher_final(c, output, fault) ==
    IF block_size(c) < 0 THEN Panic(c)
    ELSE IF block_size(c) > 1 /\ ~(output.len >= block_size(c)) THEN Panic(c)
    ELSE cvt(EVP_CipherFinal(c, fault))

\* the outcome of a Vec-based method: as the slice method's, with the
\* caller's vector as the call leaves it
VecResult(r, vec) ==
    [res |-> r.res, ctx |-> r.ctx, n |-> r.n, out |-> r.out, engine |-> r.engine,
     vec |-> vec]

\* the vector whose part from base on the engine wrote w into
WrittenAt(vec, base, w) == Take(vec, base) \o WriteInto(Drop(vec, base), w)

\* mutant of cipher_update_vec: the vector is cut back to its old length
\* when the update fails
M_cipher_update_vec_cut(c, input, output, fault) ==
    IF block_size(c) < 0 THEN VecResult(Panic(c), output)
    ELSE LET base == Len(output)
             resized == Resize(output, base + Len(input) + block_size(c))
             r == cipher_update(c, input, OutBuf(Len(resized) - base), fault)
         IN IF r.res # "Ok" THEN VecResult(r, Take(resized, base))
            ELSE VecResult(r, Truncate(WrittenAt(resized, base, r.out), base + r.n))

cipher_update_vec(c, input, output, fault) ==
    IF block_size(c) < 0 THEN VecResult(Panic(c), output)
    ELSE LET base == Len(output)
             resized == Resize(output, base + Len(input) + block_size(c))
             r == cipher_update(c, input, OutBuf(Len(resized) - base), fault)
         IN IF r.res # "Ok" THEN VecResult(r, WrittenAt(resized, base, r.out))
            ELSE VecResult(r, Truncate(WrittenAt(resized, base, r.out), base + r.n))

\* mutant of cipher_final_vec: the vector is not truncated
M_cipher_final_vec_keep(c, output, fault) ==
    IF block_size(c) < 0 THEN VecResult(Panic(c), output)
    ELSE LET base == Len(output)
             resized == Resize(output, base + block_size(c))
             r == cipher_final(c, OutBuf(Len(resized) - base), fault)
         IN VecResult(r, WrittenAt(resized, base, r.out))

cipher_final_vec(c, output, fault) ==
    IF block_size(c) < 0 THEN VecResult(Panic(c), output)
    ELSE LET base == Len(output)
             resized == Resize(output, base + block_size(c))
             r == cipher_final(c, OutBuf(Len(resized) - base), fault)
         IN IF r.res # "Ok" THEN VecResult(r, WrittenAt(resized, base, r.out))
            ELSE VecResult(r, Truncate(WrittenAt(resized, base, r.out), base + r.n))

----------------------------------------------------------------------------
(* The caller: one thread of control calling the methods of one CipherCtx.  *)
(* A panic ends it.  After an engine error the caller abandons the         *)
(* operation (spec.md section 7: the caller must abort and must not retry  *)
(* without a full init); a failed call leaves the context as it was, so    *)
(* the calls that could follow it are those that can follow the state      *)
(* before it, and the run ends there.                                      *)

\* The contract checks read only the lengths of the buffers passed: the
\* general caller passes buffers of every length, each filled with one value.
Filler(n, b) == [i \in 1..n |-> b]
Inputs == {Filler(n, 0) : n \in 0..MaxIn}
KeyBufs == {None} \cup {Some(Filler(n, 1)) : n \in 0..MaxKeyBuf}
Types == {"none"} \cup CipherNames
\* output buffers: absent, or of a length up to the longest input plus a block
MaxOut == MaxIn + 2
Outputs == {NoOut} \cup {OutBuf(n) : n \in 0..MaxOut}

\* what a call's checks read of the context it is made on
Pre(c) == [cipher |-> c.cipher, key_len |-> c.key_len, iv_len |-> c.iv_len,
           dir |-> c.dir]

\* a call: the lengths of the buffers passed (-1: absent), and what it returned
NoCall ==
    [op |-> "new", type |-> "none", keylen |-> -1, ivlen |-> -1, inlen |-> 0,
     outlen |-> -1, fault |-> FALSE,
     res |-> "Ok", n |-> 0, out |-> <<>>, engine |-> FALSE,
     pre |-> Pre(NewCtx)]

OptLen(o) == IF o.some THEN Len(o.v) ELSE -1
OutLen(o) == IF o.some THEN o.len ELSE -1

Call(op, r, fault) ==
    [NoCall EXCEPT !.op = op, !.fault = fault, !.res = r.res, !.n = r.n,
                   !.out = r.out, !.engine = r.engine, !.pre = Pre(ctx)]

NewCyc == [aad |-> <<>>, inp |-> <<>>, out |-> <<>>, tag |-> None]
\* a completed encryption: its parameters, what was fed and what came out
NoPrev ==
    [cipher |-> "none", dir |-> "Uninitialized", key |-> <<>>, iv |-> <<>>,
     padding |-> TRUE,
     aad |-> <<>>, inp |-> <<>>, out |-> <<>>, tag |-> <<>>]

Alive == last.res = "Ok"

Init ==
    /\ ctx = NewCtx
    /\ last = NoCall
    /\ cyc = NewCyc
    /\ prev = NoPrev
    /\ twin = NewCtx
    /\ tlast = NoCall
    /\ mode = "solo"

\* the general caller keeps no history and has no second context
Solo == UNCHANGED <<cyc, prev, twin, tlast, mode>>

DoInit(op, type, key, iv, fault) ==
    LET r == IF op = "encrypt_init" THEN encrypt_init(ctx, type, key, iv, fault)
             ELSE decrypt_init(ctx, type, key, iv, fault)
    IN /\ ctx' = r.ctx
       /\ last' = [Call(op, r, fault) EXCEPT !.type = type, !.keylen = OptLen(key),
                                             !.ivlen = OptLen(iv)]

EncryptInit ==
    /\ Alive /\ mode = "solo"
    /\ \E type \in Types, key \in KeyBufs, iv \in KeyBufs, fault \in BOOLEAN :
          DoInit("encrypt_init", type, key, iv, fault)
    /\ Solo

DecryptInit ==
    /\ Alive /\ mode = "solo"
    /\ \E type \in Types, key \in KeyBufs, iv \in KeyBufs, fault \in BOOLEAN :
          DoInit("decrypt_init", type, key, iv, fault)
    /\ Solo

DoSetLength(op, len, fault) ==
    LET r == IF op = "set_key_length" THEN set_key_length(ctx, len, fault)
             ELSE set_iv_length(ctx, len, fault)
    IN /\ ctx' = r.ctx
       /\ last' = [Call(op, r, fault) EXCEPT !.inlen = len]

SetKeyLength ==
    /\ Alive /\ mode = "solo"
    /\ \E len \in 0..MaxKeyBuf, fault \in BOOLEAN :
          DoSetLength("set_key_length", len, fault)
    /\ Solo

SetIvLength ==
    /\ Alive /\ mode = "solo"
    /\ \E len \in 0..MaxKeyBuf, fault \in BOOLEAN :
          DoSetLength("set_iv_length", len, fault)
    /\ Solo

DoSetPadding(padding) ==
    LET r == set_padding(ctx, padding)
    IN /\ ctx' = r.ctx
       /\ last' = Call("set_padding", r, FALSE)

SetPadding ==
    /\ Alive /\ mode = "solo"
    /\ \E padding \in BOOLEAN : DoSetPadding(padding)
    /\ Solo

DoUpdate(input, output, fault) ==
    LET r == cipher_update(ctx, input, output, fault)
    IN /\ ctx' = r.ctx
       /\ last' = [Call("cipher_update", r, fault) EXCEPT !.inlen = Len(input),
                                                          !.outlen = OutLen(output)]

CipherUpdate ==
    /\ Alive /\ mode = "solo"
    /\ \E input \in Inputs, output \in Outputs, fault \in BOOLEAN :
          /\ output.some => ctx.pos + Len(input) <= MaxData
          /\ DoUpdate(input, output, fault)
    /\ Solo

DoFinal(output, fault) ==
    LET r == cipher_final(ctx, output, fault)
    IN /\ ctx' = r.ctx
       /\ last' = [Call("cipher_final", r, fault) EXCEPT !.outlen = OutLen(output)]

CipherFinal ==
    /\ Alive /\ mode = "solo"
    /\ \E output \in Outputs \ {NoOut}, fault \in BOOLEAN : DoFinal(output, fault)
    /\ Solo

Next ==
    \/ EncryptInit
    \/ DecryptInit
    \/ SetKeyLength
    \/ SetIvLength
    \/ SetPadding
    \/ CipherUpdate
    \/ CipherFinal

Spec == Init /\ [][Next]_vars

----------------------------------------------------------------------------
(* The caller of an authenticated cipher: operations on one context bound  *)
(* to the AEAD descriptor, in both directions, with every key, IV, AAD,    *)
(* data and tag value; cyc records what was fed since the last init.       *)

AeadKeys == {None} \cup {Some(<<k>>) : k \in KeyByte}
Tags == SeqsUpTo(Byte, TagLen)

InitAead ==
    /\ ctx = NewCtx
    /\ last = NoCall
    /\ cyc = NewCyc
    /\ prev = NoPrev
    /\ twin = NewCtx
    /\ tlast = NoCall
    /\ mode = "aead"

Aead == UNCHANGED <<prev, twin, tlast, mode>>

AeadCipherInit ==
    /\ Alive /\ mode = "aead"
    /\ \E op \in {"encrypt_init", "decrypt_init"}, type \in {"none", "aead"},
          key \in AeadKeys, iv \in AeadKeys, fault \in BOOLEAN :
          /\ DoInit(op, type, key, iv, fault)
          /\ cyc' = IF last'.res = "Ok" THEN NewCyc ELSE cyc
    /\ Aead

AeadAad ==
    /\ Alive /\ mode = "aead"
    /\ \E input \in SeqsUpTo(Byte, MaxIn), fault \in BOOLEAN :
          /\ Len(cyc.aad) + Len(input) <= MaxAad
          /\ DoUpdate(input, NoOut, fault)
          /\ cyc' = IF last'.res = "Ok" THEN [cyc EXCEPT !.aad = cyc.aad \o input]
                    ELSE cyc
    /\ Aead

AeadCipherUpdate ==
    /\ Alive /\ mode = "aead"
    /\ \E input \in SeqsUpTo(Byte, MaxIn), fault \in BOOLEAN :
          /\ Len(cyc.inp) + Len(input) <= MaxData
          /\ DoUpdate(input, OutBuf(Len(input)), fault)
          /\ cyc' = IF last'.res = "Ok"
                    THEN [cyc EXCEPT !.inp = cyc.inp \o input,
                                     !.out = cyc.out \o last'.out]
                    ELSE cyc
    /\ Aead

DoSetTag(t, fault) ==
    LET r == set_tag(ctx, t, fault)
    IN /\ ctx' = r.ctx
       /\ last' = [Call("set_tag", r, fault) EXCEPT !.inlen = Len(t)]

AeadSetTag ==
    /\ Alive /\ mode = "aead"
    /\ \E t \in Tags, fault \in BOOLEAN :
          /\ DoSetTag(t, fault)
          /\ cyc' = IF last'.res = "Ok" THEN [cyc EXCEPT !.tag = Some(t)] ELSE cyc
    /\ Aead

DoTag(len, fault) ==
    LET r == tag(ctx, len, fault)
    IN /\ ctx' = r.ctx
       /\ last' = [Call("tag", r, fault) EXCEPT !.outlen = len]

AeadTag ==
    /\ Alive /\ mode = "aead"
    /\ \E len \in 0..TagLen, fault \in BOOLEAN : DoTag(len, fault)
    /\ cyc' = cyc
    /\ Aead

AeadCipherFinal ==
    /\ Alive /\ mode = "aead"
    /\ \E fault \in BOOLEAN : DoFinal(OutBuf(0), fault)
    /\ cyc' = cyc
    /\ Aead

NextAead ==
    \/ AeadCipherInit
    \/ AeadAad
    \/ AeadCipherUpdate
    \/ AeadSetTag
    \/ AeadTag
    \/ AeadCipherFinal

SpecAead == InitAead /\ [][NextAead]_vars

----------------------------------------------------------------------------
(* The round trip: one cipher, key and IV; a plaintext encrypted in chunks *)
(* to the end (and the tag read, for the AEAD cipher), then the ciphertext *)
(* decrypted in chunks of its own on the same context re-initialised, or   *)
(* on a fresh one, with the same parameters.                               *)

KeysOf(n) == [1..n -> KeyByte]
Chunks == SeqsUpTo(DataByte, MaxChunk)
IsAead(name) == name # "none" /\ Cipher(name).aead

InitRoundTrip ==
    /\ ctx = NewCtx
    /\ last = NoCall
    /\ cyc = NewCyc
    /\ prev = NoPrev
    /\ twin = NewCtx
    /\ tlast = NoCall
    /\ mode = "rt_new"

\* the step moves to phase m when the call succeeds
RtStep(m) ==
    /\ mode' = IF last'.res = "Ok" THEN m ELSE mode
    /\ UNCHANGED <<twin, tlast>>

RtEncryptInit ==
    /\ Alive /\ mode = "rt_new"
    /\ \E type \in CipherNames, fault \in BOOLEAN :
       \E key \in KeysOf(Cipher(type).key_len), iv \in KeysOf(Cipher(type).iv_len) :
          /\ DoInit("encrypt_init", type, Some(key), Some(iv), fault)
          /\ prev' = [NoPrev EXCEPT !.cipher = type, !.dir = "Encrypting",
                                    !.key = key, !.iv = iv]
    /\ cyc' = NewCyc
    /\ RtStep("rt_enc_init")

RtSetPadding ==
    /\ Alive /\ mode = "rt_enc_init"
    /\ \E padding \in BOOLEAN :
          /\ DoSetPadding(padding)
          /\ prev' = [prev EXCEPT !.padding = padding]
    /\ cyc' = cyc
    /\ RtStep("rt_enc")

RtAad ==
    /\ Alive /\ mode = "rt_enc"
    /\ IsAead(prev.cipher) /\ cyc.aad = <<>> /\ cyc.inp = <<>>
    /\ \E input \in SeqsUpTo(DataByte, MaxAad) \ {<<>>}, fault \in BOOLEAN :
          /\ DoUpdate(input, NoOut, fault)
          /\ cyc' = [cyc EXCEPT !.aad = input]
    /\ prev' = prev
    /\ RtStep("rt_enc")

RtDoUpdate(input, fault) ==
    /\ DoUpdate(input, OutBuf(Len(input) + Cipher(prev.cipher).block_size), fault)
    /\ cyc' = IF last'.res = "Ok"
              THEN [cyc EXCEPT !.inp = cyc.inp \o input, !.out = cyc.out \o last'.out]
              ELSE cyc

RtEncUpdate ==
    /\ Alive /\ mode = "rt_enc"
    /\ \E input \in Chunks, fault \in BOOLEAN :
          /\ Len(cyc.inp) + Len(input) <= MaxPlain
          /\ RtDoUpdate(input, fault)
    /\ prev' = prev
    /\ RtStep("rt_enc")

RtDoFinal(fault) ==
    /\ DoFinal(OutBuf(Cipher(prev.cipher).block_size), fault)
    /\ cyc' = IF last'.res = "Ok" THEN [cyc EXCEPT !.out = cyc.out \o last'.out]
              ELSE cyc

RtEncFinal ==
    /\ Alive /\ mode = "rt_enc"
    /\ \E fault \in BOOLEAN : RtDoFinal(fault)
    /\ prev' = IF last'.res = "Ok"
               THEN [prev EXCEPT !.aad = cyc'.aad, !.inp = cyc'.inp, !.out = cyc'.out]
               ELSE prev
    /\ RtStep(IF IsAead(prev.cipher) THEN "rt_enc_final" ELSE "rt_enc_done")

RtTag ==
    /\ Alive /\ mode = "rt_enc_final"
    /\ \E fault \in BOOLEAN : DoTag(TagLen, fault)
    /\ prev' = IF last'.res = "Ok" THEN [prev EXCEPT !.tag = last'.out] ELSE prev
    /\ cyc' = cyc
    /\ RtStep("rt_enc_done")

RtDecryptInit ==
    /\ Alive /\ mode = "rt_enc_done"
    /\ \E fresh \in BOOLEAN, fault \in BOOLEAN :
          LET r == decrypt_init(IF fresh THEN NewCtx ELSE ctx, prev.cipher,
                                Some(prev.key), Some(prev.iv), fault)
          IN /\ ctx' = r.ctx
             /\ last' = [Call("decrypt_init", r, fault)
                            EXCEPT !.type = prev.cipher, !.keylen = Len(prev.key),
                                   !.ivlen = Len(prev.iv),
                                   !.pre = Pre(IF fresh THEN NewCtx ELSE ctx)]
    /\ cyc' = NewCyc
    /\ prev' = prev
    /\ RtStep("rt_dec_init")

RtDecSetPadding ==
    /\ Alive /\ mode = "rt_dec_init"
    /\ DoSetPadding(prev.padding)
    /\ UNCHANGED <<cyc, prev>>
    /\ RtStep("rt_dec")

RtSetTag ==
    /\ Alive /\ mode = "rt_dec"
    /\ IsAead(prev.cipher) /\ ~cyc.tag.some
    /\ \E fault \in BOOLEAN : DoSetTag(prev.tag, fault)
    /\ cyc' = IF last'.res = "Ok" THEN [cyc EXCEPT !.tag = Some(prev.tag)] ELSE cyc
    /\ prev' = prev
    /\ RtStep("rt_dec")

RtDecAad ==
    /\ Alive /\ mode = "rt_dec"
    /\ cyc.aad # prev.aad /\ cyc.inp = <<>>
    /\ \E fault \in BOOLEAN : DoUpdate(prev.aad, NoOut, fault)
    /\ cyc' = IF last'.res = "Ok" THEN [cyc EXCEPT !.aad = prev.aad] ELSE cyc
    /\ prev' = prev
    /\ RtStep("rt_dec")

\* the next n bytes of the ciphertext the encryption produced
RtDecUpdate ==
    /\ Alive /\ mode = "rt_dec"
    /\ cyc.aad = prev.aad
    /\ \E n \in 0..MaxChunk, fault \in BOOLEAN :
          /\ Len(cyc.inp) + n <= Len(prev.out)
          /\ RtDoUpdate(SubSeq(prev.out, Len(cyc.inp) + 1, Len(cyc.inp) + n), fault)
    /\ prev' = prev
    /\ RtStep("rt_dec")

RtDecFinal ==
    /\ Alive /\ mode = "rt_dec"
    /\ cyc.aad = prev.aad /\ cyc.inp = prev.out
    /\ IsAead(prev.cipher) => cyc.tag.some
    /\ \E fault \in BOOLEAN : RtDoFinal(fault)
    /\ prev' = prev
    /\ RtStep("rt_done")

NextRoundTrip ==
    \/ RtEncryptInit
    \/ RtSetPadding
    \/ RtAad
    \/ RtEncUpdate
    \/ RtEncFinal
    \/ RtTag
    \/ RtDecryptInit
    \/ RtDecSetPadding
    \/ RtSetTag
    \/ RtDecAad
    \/ RtDecUpdate
    \/ RtDecFinal

SpecRoundTrip == InitRoundTrip /\ [][NextRoundTrip]_vars

----------------------------------------------------------------------------
(* Reuse: a caller takes one context through any calls up to and past a    *)
(* cipher_final; then the same init, the same padding setting and the same *)
(* calls go to that context and to a fresh one.                            *)

InitReuse ==
    /\ ctx = NewCtx
    /\ last = NoCall
    /\ cyc = NewCyc
    /\ prev = NoPrev
    /\ twin = NewCtx
    /\ tlast = NoCall
    /\ mode = "reuse_first"

First == UNCHANGED <<cyc, prev, twin, tlast, mode>>

\* key and IV buffers long enough for every configured length
FirstInit ==
    /\ Alive /\ mode = "reuse_first"
    /\ \E op \in {"encrypt_init", "decrypt_init"}, type \in Types :
          DoInit(op, type, Some(Filler(MaxKeyBuf, 1)), Some(Filler(MaxKeyBuf, 1)), FALSE)
    /\ First

FirstSetLength ==
    /\ Alive /\ mode = "reuse_first"
    /\ \E op \in {"set_key_length", "set_iv_length"}, len \in 1..MaxKeyBuf :
          DoSetLength(op, len, FALSE)
    /\ First

FirstSetPadding ==
    /\ Alive /\ mode = "reuse_first"
    /\ \E padding \in BOOLEAN : DoSetPadding(padding)
    /\ First

FirstUpdate ==
    /\ Alive /\ mode = "reuse_first"
    /\ \E input \in Inputs, output \in {NoOut, OutBuf(MaxOut)} :
          /\ output.some => ctx.pos + Len(input) <= MaxData
          /\ DoUpdate(input, output, FALSE)
    /\ First

FirstSetTag ==
    /\ Alive /\ mode = "reuse_first"
    /\ DoSetTag(Filler(TagLen, 1), FALSE)
    /\ First

FirstTag ==
    /\ Alive /\ mode = "reuse_first"
    /\ DoTag(TagLen, FALSE)
    /\ First

FirstFinal ==
    /\ Alive /\ mode = "reuse_first"
    /\ DoFinal(OutBuf(MaxOut), FALSE)
    /\ First

\* the call that returned r on the reused context returned t on the fresh one
Pair(op, r, t, fault, m) ==
    /\ ctx' = r.ctx
    /\ twin' = t.ctx
    /\ last' = Call(op, r, fault)
    /\ tlast' = [Call(op, t, fault) EXCEPT !.pre = Pre(twin)]
    /\ mode' = IF r.res = "Ok" THEN m ELSE mode
    /\ cyc' = cyc

PairInit ==
    /\ Alive /\ mode = "reuse_first" /\ ctx.fin
    /\ \E op \in {"encrypt_init", "decrypt_init"}, type \in CipherNames,
          fault \in BOOLEAN :
       \E key \in KeysOf(Cipher(type).key_len), iv \in KeysOf(Cipher(type).iv_len) :
          IF op = "encrypt_init"
          THEN Pair(op, encrypt_init(ctx, type, Some(key), Some(iv), fault),
                    encrypt_init(twin, type, Some(key), Some(iv), fault),
                    fault, "reuse_init")
          ELSE Pair(op, decrypt_init(ctx, type, Some(key), Some(iv), fault),
                    decrypt_init(twin, type, Some(key), Some(iv), fault),
                    fault, "reuse_init")
    /\ prev' = [NoPrev EXCEPT !.cipher = ctx.cipher, !.dir = ctx.dir]

PairSetPadding ==
    /\ Alive /\ mode = "reuse_init"
    /\ \E padding \in BOOLEAN :
          Pair("set_padding", set_padding(ctx, padding), set_padding(twin, padding),
               FALSE, "reuse_pair")
    /\ prev' = prev

PairAad ==
    /\ Alive /\ mode = "reuse_pair"
    /\ \E input \in SeqsUpTo(DataByte, MaxAad), fault \in BOOLEAN :
          Pair("cipher_update", cipher_update(ctx, input, NoOut, fault),
               cipher_update(twin, input, NoOut, fault), fault, mode)
    /\ prev' = prev

PairUpdate ==
    /\ Alive /\ mode = "reuse_pair"
    /\ \E input \in SeqsUpTo(Byte, MaxIn), fault \in BOOLEAN :
          /\ ctx.pos + Len(input) <= MaxData
          /\ LET output == OutBuf(Len(input) + Desc(ctx).block_size)
             IN Pair("cipher_update", cipher_update(ctx, input, output, fault),
                     cipher_update(twin, input, output, fault), fault, mode)
    /\ prev' = prev

PairSetTag ==
    /\ Alive /\ mode = "reuse_pair"
    /\ \E t \in Tags, fault \in BOOLEAN :
          Pair("set_tag", set_tag(ctx, t, fault), set_tag(twin, t, fault), fault, mode)
    /\ prev' = prev

PairTag ==
    /\ Alive /\ mode = "reuse_pair"
    /\ \E len \in 0..TagLen, fault \in BOOLEAN :
          Pair("tag", tag(ctx, len, fault), tag(twin, len, fault), fault, mode)
    /\ prev' = prev

PairFinal ==
    /\ Alive /\ mode = "reuse_pair"
    /\ \E fault \in BOOLEAN :
          LET output == OutBuf(Desc(ctx).block_size)
          IN Pair("cipher_final", cipher_final(ctx, output, fault),
                  cipher_final(twin, output, fault), fault, mode)
    /\ prev' = prev

NextReuse ==
    \/ FirstInit
    \/ FirstSetLength
    \/ FirstSetPadding
    \/ FirstUpdate
    \/ FirstSetTag
    \/ FirstTag
    \/ FirstFinal
    \/ PairInit
    \/ PairSetPadding
    \/ PairAad
    \/ PairUpdate
    \/ PairSetTag
    \/ PairTag
    \/ PairFinal

SpecReuse == InitReuse /\ [][NextReuse]_vars

----------------------------------------------------------------------------
(* The envelope: seal_init for a list of recipients (in one call, or the   *)
(* cipher first and the recipients after), a message encrypted to the end, *)
(* then open_init with one of the encrypted keys and a private key (in one *)
(* call, or the cipher first) and the ciphertext decrypted in chunks; or   *)
(* open_init on the new context.                                           *)
(* prev records the sealing, cyc the operation in progress.                *)

MaxRecip == 2

Recipients == SeqsUpTo(PKeys, MaxRecip)
\* the caller's slots before the call: empty vectors
SlotVecs == {[i \in 1..m |-> <<>>] : m \in 0..MaxRecip}
IvBufs == {None} \cup {Some(Filler(n, 0)) : n \in 0..MaxKeyBuf}
\* the longest key or IV of the registry's ciphers
MaxCipherLen ==
    CHOOSE n \in 0..MaxKeyBuf :
        /\ \A name \in CipherNames : Cipher(name).key_len <= n /\ Cipher(name).iv_len <= n
        /\ \E name \in CipherNames : Cipher(name).key_len = n \/ Cipher(name).iv_len = n
\* what the random generator yields: a key, and an IV unlike a zeroed buffer
Rands ==
    [key : KeysOf(MaxCipherLen),
     iv : {Filler(MaxCipherLen, 1), <<0>> \o Filler(MaxCipherLen - 1, 1)}]

NoSeal ==
    [pubs |-> <<>>, eks0 |-> <<>>, eks |-> <<>>, iv |-> None,
     rand |-> [key |-> <<>>, iv |-> <<>>], inp |-> <<>>, out |-> <<>>, tag |-> None]
EnvCyc ==
    [inp |-> <<>>, out |-> <<>>, slot |-> 0, priv |-> None, iv |-> None, tag |-> None]

InitEnvelope ==
    /\ ctx = NewCtx
    /\ last = NoCall
    /\ cyc = EnvCyc
    /\ prev = NoSeal
    /\ twin = NewCtx
    /\ tlast = NoCall
    /\ mode = "env_new"

EnvStep(m) ==
    /\ mode' = IF last'.res = "Ok" THEN m ELSE mode
    /\ UNCHANGED <<twin, tlast>>

\* seal_init, once or (as long as no recipients were given) a second time
EnvSealInit ==
    /\ Alive /\ mode \in {"env_new", "env_seal"}
    /\ prev.pubs = <<>> /\ cyc.inp = <<>>
    /\ \E type \in Types, pub_keys \in Recipients, encrypted_keys \in SlotVecs,
          iv \in IvBufs, rand \in Rands, fault \in BOOLEAN :
          LET r == seal_init(ctx, type, pub_keys, encrypted_keys, iv, rand, fault)
          IN /\ ctx' = r.ctx
             /\ last' = [Call("seal_init", r, fault)
                            EXCEPT !.type = type, !.ivlen = OptLen(iv),
                                   !.inlen = Len(pub_keys),
                                   !.outlen = Len(encrypted_keys)]
             /\ prev' = IF r.res = "Ok" /\ pub_keys = <<>> THEN NoSeal
                        ELSE [NoSeal EXCEPT !.pubs = pub_keys, !.eks0 = encrypted_keys,
                                            !.eks = r.eks, !.iv = r.iv, !.rand = rand]
    /\ cyc' = cyc
    /\ EnvStep("env_seal")

EnvDoUpdate(input, fault) ==
    /\ DoUpdate(input, OutBuf(MaxOut), fault)
    /\ cyc' = IF last'.res = "Ok"
              THEN [cyc EXCEPT !.inp = cyc.inp \o input, !.out = cyc.out \o last'.out]
              ELSE cyc

EnvUpdate ==
    /\ Alive /\ mode = "env_seal"
    /\ \E input \in SeqsUpTo(DataByte, MaxIn), fault \in BOOLEAN :
          /\ Len(cyc.inp) + Len(input) <= MaxData
          /\ EnvDoUpdate(input, fault)
    /\ prev' = prev
    /\ EnvStep("env_seal")

EnvDoFinal(fault) ==
    /\ DoFinal(OutBuf(MaxOut), fault)
    /\ cyc' = IF last'.res = "Ok" THEN [cyc EXCEPT !.out = cyc.out \o last'.out]
              ELSE cyc

EnvFinal ==
    /\ Alive /\ mode = "env_seal"
    /\ \E fault \in BOOLEAN : EnvDoFinal(fault)
    /\ prev' = IF last'.res = "Ok"
               THEN [prev EXCEPT !.inp = cyc'.inp, !.out = cyc'.out]
               ELSE prev
    /\ EnvStep("env_sealed")

\* the AEAD cipher's tag, read after the sealing's cipher_final
EnvTag ==
    /\ Alive /\ mode = "env_sealed"
    /\ IsAead(ctx.cipher) /\ ~prev.tag.some
    /\ \E fault \in BOOLEAN : DoTag(TagLen, fault)
    /\ prev' = IF last'.res = "Ok" THEN [prev EXCEPT !.tag = Some(last'.out)] ELSE prev
    /\ cyc' = cyc
    /\ EnvStep("env_sealed")

EnvDoOpenInit(type, slot, iv, priv_key, fault) ==
    LET ek == IF slot = 0 THEN <<>> ELSE prev.eks[slot]
        r == open_init(ctx, type, ek, iv, priv_key, fault)
    IN /\ ctx' = r.ctx
       /\ last' = [Call("open_init", r, fault)
                      EXCEPT !.type = type, !.ivlen = OptLen(iv), !.inlen = Len(ek)]
       /\ cyc' = [EnvCyc EXCEPT !.slot = slot, !.priv = priv_key, !.iv = iv]

\* the descriptors the recipient passes: any on a new context, else the one
\* the message was sealed with
OpenTypes == IF mode = "env_new" THEN Types ELSE {ctx.cipher}

\* open_init without a private key: the first call of the two-phase setup
EnvOpenBind ==
    /\ Alive /\ mode \in {"env_new", "env_sealed"}
    /\ \E type \in OpenTypes, iv \in {None, Some(<<>>)}, fault \in BOOLEAN :
          EnvDoOpenInit(type, 0, iv, None, fault)
    /\ prev' = prev
    /\ EnvStep("env_open")

\* open_init with a private key and slot's encrypted key (slot 0: an empty one)
EnvOpenInit ==
    /\ Alive /\ mode \in {"env_new", "env_sealed", "env_open"}
    /\ ~cyc.priv.some /\ cyc.inp = <<>>
    /\ \E type \in OpenTypes \cup {"none"}, slot \in 0..Len(prev.eks),
          iv \in {None, Some(<<>>), prev.iv}, p \in PKeys, fault \in BOOLEAN :
          EnvDoOpenInit(type, slot, iv, Some(p), fault)
    /\ prev' = prev
    /\ EnvStep("env_open")

\* the tag of the sealing, given to the opening context
EnvSetTag ==
    /\ Alive /\ mode = "env_open"
    /\ IsAead(ctx.cipher) /\ prev.tag.some /\ cyc.priv.some /\ ~cyc.tag.some
    /\ \E fault \in BOOLEAN : DoSetTag(prev.tag.v, fault)
    /\ cyc' = IF last'.res = "Ok" THEN [cyc EXCEPT !.tag = prev.tag] ELSE cyc
    /\ prev' = prev
    /\ EnvStep("env_open")

EnvOpenUpdate ==
    /\ Alive /\ mode = "env_open"
    /\ \E n \in 0..MaxIn, fault \in BOOLEAN :
          /\ Len(cyc.inp) + n <= Len(prev.out)
          /\ EnvDoUpdate(SubSeq(prev.out, Len(cyc.inp) + 1, Len(cyc.inp) + n), fault)
    /\ prev' = prev
    /\ EnvStep("env_open")

EnvOpenFinal ==
    /\ Alive /\ mode = "env_open"
    /\ cyc.inp = prev.out
    /\ \E fault \in BOOLEAN : EnvDoFinal(fault)
    /\ prev' = prev
    /\ EnvStep("env_done")

NextEnvelope ==
    \/ EnvSealInit
    \/ EnvUpdate
    \/ EnvFinal
    \/ EnvTag
    \/ EnvOpenBind
    \/ EnvOpenInit
    \/ EnvSetTag
    \/ EnvOpenUpdate
    \/ EnvOpenFinal

SpecEnvelope == InitEnvelope /\ [][NextEnvelope]_vars

----------------------------------------------------------------------------
(* Accessors: the caller of the first phase of SpecReuse, who also reads   *)
(* the block size, the key, IV and tag lengths, and asks for random keys.  *)

AccGet ==
    /\ Alive /\ mode = "reuse_first"
    /\ \E op \in {"block_size", "key_length", "iv_length", "tag_length"} :
          LET v == CASE op = "block_size" -> block_size(ctx)
                     [] op = "key_length" -> key_length(ctx)
                     [] op = "iv_length" -> iv_length(ctx)
                     [] op = "tag_length" -> tag_length(ctx)
          IN /\ last' = Call(op, Getter(ctx, v), FALSE)
             /\ ctx' = ctx
    /\ First

AccRandKey ==
    /\ Alive /\ mode = "reuse_first"
    /\ \E buflen \in 0..MaxKeyBuf, rand \in KeysOf(MaxCipherLen), fault \in BOOLEAN :
          LET r == rand_key(ctx, buflen, rand, fault)
          IN /\ ctx' = r.ctx
             /\ last' = [Call("rand_key", r, fault) EXCEPT !.outlen = buflen]
    /\ First

NextAccess ==
    \/ FirstInit
    \/ FirstSetLength
    \/ FirstSetPadding
    \/ FirstUpdate
    \/ FirstSetTag
    \/ FirstTag
    \/ FirstFinal
    \/ AccGet
    \/ AccRandKey

SpecAccess == InitReuse /\ [][NextAccess]_vars

----------------------------------------------------------------------------
(* Contract claims, checked under Spec *)

IsInit == last.op \in {"encrypt_init", "decrypt_init"}
IsUpdate == last.op = "cipher_update"
IsFinal == last.op = "cipher_final"
\* the block size of the descriptor the call found bound
PreBlockSize == Cipher(last.pre.cipher).block_size
PreEffBlockSize == IF PreBlockSize = 1 THEN 0 ELSE PreBlockSize

\* C1: on a context whose direction is Uninitialized (no init has succeeded),
\* no cipher_update (with an output buffer or as AAD) and no cipher_final
\* returns Ok: each ends in a panic or an engine error.
C1_NoUpdateOrFinalBeforeInit ==
    (IsUpdate \/ IsFinal) /\ last.pre.dir = "Uninitialized"
        => last.res \in {"Panic", "Err"}

\* the AAD form of cipher_update reached the engine on an uninitialized context
C1_Witness ==
    /\ IsUpdate /\ last.pre.dir = "Uninitialized"
    /\ last.outlen = -1 /\ last.inlen > 0
    /\ last.engine /\ last.res = "Err"

PreEffKeyLen ==
    IF last.type # "none" THEN Cipher(last.type).key_len ELSE last.pre.key_len
PreEffIvLen ==
    IF last.type # "none" THEN Cipher(last.type).iv_len ELSE last.pre.iv_len
Unbound == last.type = "none" /\ last.pre.cipher = "none"

\* C5: encrypt_init / decrypt_init panic when a key shorter than the effective
\* key length, or an IV shorter than the effective IV length, is supplied; the
\* effective length is the passed descriptor's, else the one configured on the
\* context; an absent key or IV is not checked, so nothing else panics (but a
\* key or IV with no descriptor at all, C6).
C5_InitLengthCheck ==
    IsInit =>
        /\ last.keylen >= 0 /\ ~Unbound /\ last.keylen < PreEffKeyLen
              => last.res = "Panic"
        /\ last.ivlen >= 0 /\ ~Unbound /\ last.ivlen < PreEffIvLen
              => last.res = "Panic"
        /\ last.res = "Panic" =>
              \/ last.keylen >= 0 /\ (Unbound \/ last.keylen < PreEffKeyLen)
              \/ last.ivlen >= 0 /\ (Unbound \/ last.ivlen < PreEffIvLen)
        /\ last.res = "Panic" => ~last.engine

\* an IV long enough for the descriptor's default, but shorter than the length
\* configured on the context, was rejected when no descriptor was passed
C5_Witness ==
    /\ IsInit /\ last.type = "none" /\ last.pre.cipher # "none"
    /\ last.ivlen >= Cipher(last.pre.cipher).iv_len
    /\ last.ivlen < last.pre.iv_len
    /\ last.keylen = -1
    /\ last.res = "Panic"

\* C6: on a context no descriptor was ever bound to, an init with no
\* descriptor but with a key or an IV panics; with no descriptor, no key and
\* no IV it does not panic (the engine is called and answers).
C6_KeyOrIvBeforeCipher ==
    IsInit /\ Unbound =>
        /\ last.keylen >= 0 \/ last.ivlen >= 0 => last.res = "Panic" /\ ~last.engine
        /\ last.keylen = -1 /\ last.ivlen = -1 => last.res # "Panic" /\ last.engine

\* an IV alone, passed before any descriptor, was rejected
C6_Witness ==
    /\ IsInit /\ Unbound
    /\ last.keylen = -1 /\ last.ivlen >= 0
    /\ last.res = "Panic"
    /\ ctx = NewCtx

----------------------------------------------------------------------------
(* Authenticated decryption, checked under SpecAead *)

AeadDecryptFinal ==
    /\ IsFinal
    /\ last.pre.cipher # "none" /\ Cipher(last.pre.cipher).aead
    /\ last.pre.dir = "Decrypting"

\* t is the tag (cut to t's length) of ciphertext ct with AAD aad under the
\* context's key and IV
ValidPair(aad, ct, t) ==
    /\ Len(t) \in 1..TagLen
    /\ t = Take(TagOf(ctx, MacFeed(MacFeed(0, aad), ct)), Len(t))

\* s and t differ in exactly one place
OneOff(s, t) ==
    /\ Len(s) = Len(t)
    /\ Cardinality({i \in 1..Len(s) : s[i] # t[i]}) = 1

\* (ct, t) is a valid pair with one place of the ciphertext or of the tag changed
Tampered(aad, ct, t) ==
    \/ \E t0 \in [1..Len(t) -> Byte] : ValidPair(aad, ct, t0) /\ OneOff(t0, t)
    \/ \E ct0 \in [1..Len(ct) -> Byte] : ValidPair(aad, ct0, t) /\ OneOff(ct0, ct)

\* C8: on a decrypting AEAD context, when the ciphertext fed through
\* cipher_update and the tag given to set_tag are a valid pair with one place
\* of the ciphertext or of the tag changed, cipher_final returns Err, never Ok.
C8_TamperDetected ==
    AeadDecryptFinal /\ cyc.tag.some /\ Tampered(cyc.aad, cyc.inp, cyc.tag.v)
        => last.res = "Err"

\* the engine itself, not a provider fault, rejected a changed ciphertext
C8_Witness ==
    /\ AeadDecryptFinal /\ cyc.tag.some
    /\ \E ct0 \in [1..Len(cyc.inp) -> Byte] :
          ValidPair(cyc.aad, ct0, cyc.tag.v) /\ OneOff(ct0, cyc.inp)
    /\ ~last.fault /\ last.engine /\ last.res = "Err"

\* C9: on a decrypting AEAD context, a cipher_final reached with no set_tag
\* since the last init returns an engine error, whatever was fed.
C9_FinalNeedsTag ==
    AeadDecryptFinal /\ ~cyc.tag.some => last.res = "Err"

\* data was decrypted, no tag was set, and the engine refused to finalize; the
\* context had finished an encryption (which leaves a computed tag) before
C9_Witness ==
    /\ AeadDecryptFinal /\ ~cyc.tag.some
    /\ Len(cyc.inp) > 0
    /\ ~last.fault /\ last.engine /\ last.res = "Err"

----------------------------------------------------------------------------
(* The round trip, checked under SpecRoundTrip *)

RtDecrypting == mode \in {"rt_dec", "rt_done"}

----------------------------------------------------------------------------
(* Reuse after cipher_final, checked under SpecReuse *)

Paired == mode \in {"reuse_init", "reuse_pair"}

\* the state of the operation in progress
OpState(c) ==
    [dir |-> c.dir, buf |-> c.buf, held |-> c.held, pos |-> c.pos,
     mac |-> c.mac, tag |-> c.tag, tag_set |-> c.tag_set, fin |-> c.fin]

\* C10: once a context that went through cipher_final is given init with a
\* cipher, key and IV (either direction) and a padding setting, every call
\* of the following cycle returns on it what it returns on a freshly
\* constructed context given the same init, padding setting and calls (the
\* same result, byte count and output), and the two contexts hold the same
\* direction, buffered bytes, consumed-byte count and tag state.
C10_ReuseLikeFresh ==
    Paired =>
        /\ last.res = tlast.res /\ last.n = tlast.n /\ last.out = tlast.out
        /\ OpState(ctx) = OpState(twin)

\* a context that finished an AEAD encryption, which leaves a computed tag,
\* or a block encryption was re-initialised for decryption, and the cycle on
\* it ran to a cipher_final that answered as on the fresh context
C10_Witness ==
    /\ mode = "reuse_pair" /\ IsFinal
    /\ prev.dir = "Encrypting" /\ ctx.dir = "Decrypting"
    /\ prev.cipher # ctx.cipher
    /\ ctx.pos > 0
    /\ last.res = "Ok" /\ tlast.res = "Ok" /\ last.out = tlast.out

----------------------------------------------------------------------------
(* One call against many, checked under SpecRoundTrip *)

\* the same operation on a fresh context with the whole message in a single
\* cipher_update: init, set_padding, set_tag (decrypting AEAD), AAD, one
\* cipher_update, cipher_final; the result of the final with all the output
OneShot(dir, type, key, iv, padding, tg, aad, msg) ==
    LET bs == Cipher(type).block_size
        c1 == IF dir = "Encrypting"
              THEN encrypt_init(NewCtx, type, Some(key), Some(iv), FALSE).ctx
              ELSE decrypt_init(NewCtx, type, Some(key), Some(iv), FALSE).ctx
        c2 == set_padding(c1, padding).ctx
        c3 == IF IsAead(type) /\ dir = "Decrypting" THEN set_tag(c2, tg, FALSE).ctx
              ELSE c2
        c4 == IF aad # <<>> THEN cipher_update(c3, aad, NoOut, FALSE).ctx ELSE c3
        u == cipher_update(c4, msg, OutBuf(Len(msg) + bs), FALSE)
        f == cipher_final(u.ctx, OutBuf(bs), FALSE)
    IN [res |-> f.res, out |-> u.out \o f.out]

RtOneShot ==
    OneShot(last.pre.dir, prev.cipher, prev.key, prev.iv, prev.padding, prev.tag,
            cyc.aad, cyc.inp)

\* C11: when a message was fed to cipher_update in consecutive chunks, every
\* chunking, and cipher_final is called (no provider fault), cipher_final
\* returns what it returns after a single cipher_update over the whole message
\* on a fresh context with the same parameters, and on Ok the concatenated
\* outputs of the updates and the final are the same bytes.
C11_ChunkingInvisible ==
    mode # "rt_new" /\ IsFinal /\ ~last.fault
        => /\ last.res = RtOneShot.res
           /\ last.res = "Ok" => cyc.out = RtOneShot.out

\* a message longer than the largest chunk went through the block cipher in
\* several calls, a partial block being carried from one call to the next
C11_Witness ==
    /\ mode = "rt_enc_done" /\ IsFinal /\ last.res = "Ok"
    /\ prev.cipher = "block" /\ Len(prev.inp) = MaxPlain
    /\ Len(cyc.out) > 0 /\ cyc.out = RtOneShot.out

----------------------------------------------------------------------------
(* Envelope claims, checked under SpecEnvelope *)

IsSeal == last.op = "seal_init"
IsOpen == last.op = "open_init"

\* C12: a seal_init whose pub_keys and encrypted_keys differ in length panics,
\* the engine is not called, no slot of encrypted_keys has changed and the
\* context is as before the call.
C12_SealLengthMismatch ==
    IsSeal /\ last.inlen # last.outlen
        => /\ last.res = "Panic" /\ ~last.engine
           /\ prev.eks = prev.eks0
           /\ Pre(ctx) = last.pre

\* two recipients, one slot, a descriptor and an IV buffer that would do
C12_Witness ==
    /\ IsSeal /\ last.inlen = MaxRecip /\ last.outlen = MaxRecip - 1
    /\ last.type # "none" /\ last.ivlen >= Cipher(last.type).iv_len
    /\ last.res = "Panic" /\ prev.eks = prev.eks0

\* the IV buffer's length, an absent buffer counting as 0
LastIvLen == IF last.ivlen < 0 THEN 0 ELSE last.ivlen

SessionKey == Take(prev.rand.key, ctx.key_len)

\* C15: after a seal_init with N > 0 recipients returned Ok, encrypted_keys
\* has N slots, slot i is exactly the session key encrypted under pub_keys[i]
\* (so its length is the length the engine produced), no slot is longer than
\* its public key's size, the IV buffer starts with the generated IV, and the
\* context is encrypting under the session key, ready for cipher_update.
C15_SealOutputs ==
    IsSeal /\ last.res = "Ok" /\ last.inlen > 0
        => /\ Len(prev.eks) = Len(prev.pubs)
           /\ \A i \in 1..Len(prev.pubs) :
                 /\ prev.eks[i] = Wrap(prev.pubs[i], SessionKey)
                 /\ Len(prev.eks[i]) <= PKeySize(prev.pubs[i])
           /\ Take(prev.iv.v, ctx.iv_len) = Take(prev.rand.iv, ctx.iv_len)
           /\ ctx.dir = "Encrypting" /\ Ready(ctx) /\ ctx.key = SessionKey

\* two different recipients, the second key first, and slots that end up
\* shorter than the size they were resized to
C15_Witness ==
    /\ IsSeal /\ last.res = "Ok" /\ Len(prev.pubs) = MaxRecip
    /\ prev.pubs[1] > prev.pubs[2]
    /\ \A i \in 1..Len(prev.pubs) :
          /\ prev.eks[i] = Wrap(prev.pubs[i], SessionKey)
          /\ Len(prev.eks[i]) < PKeySize(prev.pubs[i])

\* a successful open_init with a private key is in effect
Opened ==
    /\ mode \in {"env_open", "env_done"}
    /\ cyc.priv.some
    /\ IsOpen => last.res = "Ok"

\* the private key is the one of the public key the slot was encrypted under
Matched == cyc.slot \in 1..Len(prev.pubs) /\ prev.pubs[cyc.slot] = cyc.priv.v

----------------------------------------------------------------------------
(* Accessors, checked under SpecAccess *)

NeedsCipher ==
    {"block_size", "key_length", "iv_length", "tag_length", "rand_key",
     "set_key_length", "set_iv_length"}

\* C17: block_size, key_length, iv_length, tag_length, rand_key,
\* set_key_length and set_iv_length panic when the context has no cipher
\* bound; set_padding returns normally in every state, bound or not.
C17_AccessorsNeedCipher ==
    /\ last.op \in NeedsCipher /\ last.pre.cipher = "none" => last.res = "Panic"
    /\ last.op = "set_padding" => last.res = "Ok"

\* padding was disabled on a context with no cipher, and rand_key with a
\* buffer then panicked
C17_Witness ==
    /\ last.op = "rand_key" /\ last.outlen = MaxKeyBuf
    /\ last.pre.cipher = "none" /\ ~ctx.padding
    /\ last.res = "Panic"


----------------------------------------------------------------------------
(* Failure classes, checked under Spec *)

\* a call made with no descriptor bound and none passed
UsedUnbound ==
    /\ last.pre.cipher = "none"
    /\ \/ IsUpdate \/ IsFinal
       \/ last.op \in {"set_key_length", "set_iv_length"}
       \/ IsInit /\ last.type = "none" /\ (last.keylen >= 0 \/ last.ivlen >= 0)
\* a call made with a buffer shorter than its size check requires
Undersized ==
    \/ /\ IsUpdate /\ last.pre.cipher # "none"
       /\ last.outlen >= 0 /\ last.outlen < last.inlen + PreEffBlockSize
    \/ /\ IsFinal /\ last.pre.cipher # "none"
       /\ PreBlockSize > 1 /\ last.outlen < PreBlockSize
    \/ IsInit /\ ~Unbound /\ last.keylen >= 0 /\ last.keylen < PreEffKeyLen
    \/ IsInit /\ ~Unbound /\ last.ivlen >= 0 /\ last.ivlen < PreEffIvLen

\* C18 as stated: a failure of the engine is returned as Err, never as Ok or a
\* panic, and an Err is only ever the engine's; a contract violation (a buffer
\* too short, or a call before a descriptor is bound) panics, and is never
\* returned as Err or let through.
C18_Original ==
    /\ last.engine /\ last.fault => last.res = "Err"
    /\ last.res = "Err" => last.engine
    /\ Undersized \/ UsedUnbound => last.res = "Panic" /\ ~last.engine

----------------------------------------------------------------------------
(* Padding, checked under SpecRoundTrip *)

\* the caller disabled padding after the init of the operation in progress,
\* on the block cipher
PaddingOff ==
    /\ prev.cipher = "block" /\ ~prev.padding
    /\ mode \notin {"rt_new", "rt_enc_init", "rt_dec_init"}
\* the bytes fed to cipher_update since the last init fill whole blocks
WholeBlocks == Len(cyc.inp) % Cipher(prev.cipher).block_size = 0

\* C19: with padding disabled by set_padding(false) on a block cipher,
\* cipher_final returns Err when the bytes fed to cipher_update since the
\* last init are not a whole number of blocks, and returns Ok having written
\* 0 bytes when they are (unless the engine fails for another reason); a new
\* context has padding enabled, and with padding enabled cipher_final of an
\* encryption writes one block.
C19_PaddingDisabled ==
    /\ IsFinal /\ PaddingOff /\ ~WholeBlocks => last.res = "Err"
    /\ IsFinal /\ PaddingOff /\ WholeBlocks /\ ~last.fault
          => last.res = "Ok" /\ last.n = 0 /\ last.out = <<>>
    /\ last.op = "new" => ctx.padding
    /\ IsFinal /\ prev.cipher = "block" /\ prev.padding /\ ~last.fault
          /\ last.pre.dir = "Encrypting"
          => last.res = "Ok" /\ last.n = Cipher(prev.cipher).block_size

\* an encryption without padding was fed one block and one more byte, and its
\* cipher_final failed
C19_Witness ==
    /\ IsFinal /\ PaddingOff /\ last.pre.dir = "Encrypting"
    /\ Len(cyc.inp) = Cipher(prev.cipher).block_size + 1
    /\ ~last.fault /\ last.engine /\ last.res = "Err"

----------------------------------------------------------------------------
(* The computed tag, checked under SpecAead *)

IsTag == last.op = "tag"
\* the tag of what the caller fed since the last init, cut to the buffer
ComputedTag ==
    Take(TagOf(ctx, MacFeed(MacFeed(0, cyc.aad), cyc.out)), last.outlen)

\* C20: on an AEAD context tag() returns Ok only when the operation in
\* progress is an encryption whose cipher_final has succeeded, and what it
\* writes is then the tag computed over the data and AAD of that operation;
\* called after an init and before cipher_final it returns an error and
\* writes nothing.
C20_TagAfterFinal ==
    IsTag /\ last.pre.cipher = "aead" =>
        /\ last.res = "Ok" =>
              /\ last.pre.dir = "Encrypting" /\ ctx.fin
              /\ last.out = ComputedTag
        /\ ~ctx.fin => last.res = "Err" /\ last.out = <<>>

\* the tag of an encryption of MaxData bytes with AAD was read after its final
C20_Witness ==
    /\ IsTag /\ last.pre.cipher = "aead" /\ last.pre.dir = "Encrypting"
    /\ Len(cyc.inp) = MaxData /\ cyc.aad # <<>>
    /\ ctx.fin /\ last.outlen = TagLen
    /\ last.res = "Ok" /\ last.out = ComputedTag

----------------------------------------------------------------------------
(* Threads sharing one context.  CipherCtx is Send and Sync, so a context  *)
(* can be reached from several threads; a method taking &mut self needs    *)
(* the exclusive borrow of the context for the duration of the call, a     *)
(* method taking &self a shared one.  Here cyc holds, per thread, the call *)
(* in flight, and a call takes effect when it returns.                     *)

Threads == {1, 2}

StateChanging ==
    {"encrypt_init", "decrypt_init", "seal_init", "open_init", "cipher_update",
     "cipher_final", "set_key_length", "set_iv_length", "set_tag", "set_padding"}
ReadOnly == {"tag", "rand_key", "block_size", "key_length", "iv_length"}

\* mutant of Receiver: every method declared with a shared receiver
M_Receiver_shared(op) == "&self"

\* the receiver each method is declared with
Receiver(op) ==
    CASE op = "encrypt_init" -> "&mut self"
      [] op = "decrypt_init" -> "&mut self"
      [] op = "seal_init" -> "&mut self"
      [] op = "open_init" -> "&mut self"
      [] op = "block_size" -> "&self"
      [] op = "key_length" -> "&self"
      [] op = "rand_key" -> "&self"
      [] op = "set_key_length" -> "&mut self"
      [] op = "iv_length" -> "&self"
      [] op = "set_iv_length" -> "&mut self"
      [] op = "tag" -> "&self"
      [] op = "set_tag" -> "&mut self"
      [] op = "set_padding" -> "&mut self"
      [] op = "cipher_update" -> "&mut self"
      [] op = "cipher_final" -> "&mut self"

Idle == [t \in Threads |-> "idle"]

\* the borrow a call of op needs can be taken by thread t: an exclusive
\* borrow while no other borrow is out, a shared one while no exclusive is
Borrowable(t, op) ==
    \A u \in Threads \ {t} :
        IF cyc[u] = "idle" THEN TRUE
        ELSE Receiver(op) = "&self" /\ Receiver(cyc[u]) = "&self"

\* what a call of op returns, made with arguments that pass its checks on a
\* context bound to the descriptor the inits pass
Returned(c, op) ==
    CASE op = "encrypt_init" ->
            encrypt_init(c, "aead", Some(Filler(1, 1)), Some(Filler(1, 1)), FALSE)
      [] op = "decrypt_init" ->
            decrypt_init(c, "aead", Some(Filler(1, 1)), Some(Filler(1, 1)), FALSE)
      [] op = "seal_init" ->
            seal_init(c, "block", <<>>, <<>>, None,
                      [key |-> Filler(MaxCipherLen, 1), iv |-> Filler(MaxCipherLen, 1)],
                      FALSE)
      [] op = "open_init" -> open_init(c, "stream", <<>>, None, None, FALSE)
      [] op = "block_size" -> Getter(c, block_size(c))
      [] op = "key_length" -> Getter(c, key_length(c))
      [] op = "iv_length" -> Getter(c, iv_length(c))
      [] op = "rand_key" -> rand_key(c, MaxKeyBuf, Filler(MaxCipherLen, 1), FALSE)
      [] op = "set_key_length" -> set_key_length(c, 1, FALSE)
      [] op = "set_iv_length" -> set_iv_length(c, MaxKeyBuf, FALSE)
      [] op = "tag" -> tag(c, TagLen, FALSE)
      [] op = "set_tag" -> set_tag(c, Filler(TagLen, 1), FALSE)
      [] op = "set_padding" -> set_padding(c, ~c.padding)
      [] op = "cipher_update" -> cipher_update(c, Filler(1, 0), OutBuf(MaxOut), FALSE)
      [] op = "cipher_final" -> cipher_final(c, OutBuf(MaxOut), FALSE)

InitThreads ==
    /\ ctx = NewCtx
    /\ last = NoCall
    /\ cyc = Idle
    /\ prev = NoPrev
    /\ twin = NewCtx
    /\ tlast = NoCall
    /\ mode = "threads"

\* thread t enters a method
ThreadCall ==
    /\ mode = "threads"
    /\ \E t \in Threads, op \in StateChanging \cup ReadOnly :
          /\ cyc[t] = "idle"
          /\ Borrowable(t, op)
          /\ ctx.pos < MaxData
          /\ cyc' = [cyc EXCEPT ![t] = op]
    /\ UNCHANGED <<ctx, last, prev, twin, tlast, mode>>

\* thread t's call returns (or panics, which also ends the borrow)
ThreadReturn ==
    /\ mode = "threads"
    /\ \E t \in Threads :
          /\ cyc[t] # "idle"
          /\ LET r == Returned(ctx, cyc[t])
             IN /\ ctx' = r.ctx
                /\ last' = Call(cyc[t], r, FALSE)
          /\ cyc' = [cyc EXCEPT ![t] = "idle"]
    /\ UNCHANGED <<prev, twin, tlast, mode>>

NextThreads ==
    \/ ThreadCall
    \/ ThreadReturn

SpecThreads == InitThreads /\ [][NextThreads]_vars

\* C22: no two threads are inside state-changing calls on the context at
\* once, and no thread is inside a read-only call (or any call) while
\* another is inside a state-changing one.
C22_NoOverlap ==
    \A t \in Threads, u \in Threads :
        t # u /\ cyc[t] \in StateChanging => cyc[u] = "idle"

\* two threads read the tag and draw a key at once on a finished encryption,
\* and cipher_final was the call before
C22_Witness ==
    /\ mode = "threads"
    /\ cyc[1] = "tag" /\ cyc[2] = "rand_key"
    /\ ctx.dir = "Encrypting" /\ ctx.fin
    /\ last.op = "cipher_final" /\ last.res = "Ok"

----------------------------------------------------------------------------
(* dsa.rs: a DSA object built from BigNum components.  In SpecDsa the      *)
(* variables hold                                                          *)
(*   ctx   the DSA object (ffi::DSA): its five component pointers, its     *)
(*         reference count and how often it was freed,                     *)
(*   twin  the BigNums passed by the caller, by parameter name: value,     *)
(*         whether Rust still owns it (it was not mem::forget-ed), and how *)
(*         often it was freed,                                             *)
(*   cyc   the number of live Dsa handles,                                 *)
(*   prev  the values the caller passed,                                   *)
(*   last  the last call and what it returned.                             *)

MaxNum == 2
MaxHandles == 2
Nums == 1..MaxNum
Components == {"p", "q", "g", "priv_key", "pub_key"}

NoDsa ==
    [p |-> "null", q |-> "null", g |-> "null", pub_key |-> "null",
     priv_key |-> "null", refs |-> 0, frees |-> 0, made |-> FALSE]
NoBigNum == [val |-> 0, alloc |-> FALSE, rust |-> FALSE, frees |-> 0]
NoBigNums == [a \in Components |-> NoBigNum]

\* the BigNums of the caller, moved into the constructor: vals maps each
\* parameter of the constructor to its value
Moved(vals) ==
    [a \in Components |->
        IF a \in DOMAIN vals
        THEN [val |-> vals[a], alloc |-> TRUE, rust |-> TRUE, frees |-> 0]
        ELSE NoBigNum]

\* DSA_new(): an object with one reference, or null
DSA_new(fault) == IF fault THEN NoDsa ELSE [NoDsa EXCEPT !.refs = 1, !.made = TRUE]

\* DSA_set0_pqg(d, p, q, g): the object takes the three pointers; a failure
\* takes nothing
DSA_set0_pqg(d, p, q, g, fault) ==
    IF fault THEN [ret |-> 0, dsa |-> d]
    ELSE [ret |-> 1, dsa |-> [d EXCEPT !.p = p, !.q = q, !.g = g]]

\* mutant of DSA_set0_key: the two pointers stored the other way round
M_DSA_set0_key_swapped(d, pub_key, priv_key, fault) ==
    IF fault THEN [ret |-> 0, dsa |-> d]
    ELSE [ret |-> 1, dsa |-> [d EXCEPT !.pub_key = priv_key, !.priv_key = pub_key]]

\* DSA_set0_key(d, pub_key, priv_key)
DSA_set0_key(d, pub_key, priv_key, fault) ==
    IF fault THEN [ret |-> 0, dsa |-> d]
    ELSE [ret |-> 1, dsa |-> [d EXCEPT !.pub_key = pub_key, !.priv_key = priv_key]]

DSA_get0_pqg(d) == [p |-> d.p, q |-> d.q, g |-> d.g]
DSA_get0_key(d) == [pub_key |-> d.pub_key, priv_key |-> d.priv_key]

\* BN_free on each BigNum of the set s
BN_free(bn, s) == [a \in Components |-> IF a \in s THEN [bn[a] EXCEPT !.frees = @ + 1] ELSE bn[a]]

\* DSA_free(d): drops one reference; the last one frees the object and the
\* components it holds
DSA_free(d, bn) ==
    IF d.refs > 1 THEN [dsa |-> [d EXCEPT !.refs = @ - 1], bn |-> bn]
    ELSE [dsa |-> [d EXCEPT !.refs = 0, !.frees = @ + 1],
          bn |-> BN_free(bn, {d.p, d.q, d.g, d.pub_key, d.priv_key} \ {"null"})]

\* DSA_up_ref(d)
DSA_up_ref(d) == [d EXCEPT !.refs = @ + 1]

\* mutant of mem_forget: the values are not forgotten
M_mem_forget_none(bn, s) == bn

\* mem::forget((..)): Rust gives up the BigNums of s without freeing them
mem_forget(bn, s) ==
    [a \in Components |-> IF a \in s THEN [bn[a] EXCEPT !.rust = FALSE] ELSE bn[a]]

\* leaving the constructor: the parameters Rust still owns are dropped, and
\* on an early return so is the local dsa
Leave(res, d, bn, dropDsa) ==
    LET f == IF dropDsa /\ d.made THEN DSA_free(d, bn) ELSE [dsa |-> d, bn |-> bn]
    IN [res |-> res, dsa |-> f.dsa,
        bn |-> BN_free(f.bn, {a \in Components : f.bn[a].alloc /\ f.bn[a].rust})]

\* the body the two constructors share: DSA_new, DSA_set0_pqg, forget,
\* DSA_set0_key, forget; fault names the call that fails ("none": none)
FromComponents(vals, priv_key, fault) ==
    LET bn0 == Moved(vals)
        d0 == DSA_new(fault = "new")
    IN IF ~d0.made THEN Leave("Err", d0, bn0, FALSE)
       ELSE LET r1 == DSA_set0_pqg(d0, "p", "q", "g", fault = "pqg")
            IN IF r1.ret <= 0 THEN Leave("Err", r1.dsa, bn0, TRUE)
               ELSE LET bn1 == mem_forget(bn0, {"p", "q", "g"})
                        r2 == DSA_set0_key(r1.dsa, "pub_key", priv_key, fault = "key")
                    IN IF r2.ret <= 0 THEN Leave("Err", r2.dsa, bn1, TRUE)
                       ELSE Leave("Ok", r2.dsa,
                                  mem_forget(bn1, {"pub_key", priv_key} \ {"null"}),
                                  FALSE)

from_private_components(vals, fault) == FromComponents(vals, "priv_key", fault)
from_public_components(vals, fault) == FromComponents(vals, "null", fault)

\* the accessors: the pointer the object holds for the component
p(d) == DSA_get0_pqg(d).p
q(d) == DSA_get0_pqg(d).q
g(d) == DSA_get0_pqg(d).g
pub_key(d) == DSA_get0_key(d).pub_key
priv_key(d) == DSA_get0_key(d).priv_key

\* Clone for Dsa / ToOwned for DsaRef
to_owned(d) == DSA_up_ref(d)

Faults == {"none", "new", "pqg", "key"}

InitDsa ==
    /\ ctx = NoDsa
    /\ twin = NoBigNums
    /\ cyc = 0
    /\ prev = [c \in {} |-> 0]
    /\ last = NoCall
    /\ tlast = NoCall
    /\ mode = "dsa_new"

Construct(op, vals, r, fault) ==
    /\ ctx' = r.dsa
    /\ twin' = r.bn
    /\ cyc' = IF r.res = "Ok" THEN 1 ELSE 0
    /\ prev' = vals
    /\ last' = [NoCall EXCEPT !.op = op, !.res = r.res, !.type = fault,
                              !.fault = (fault # "none")]
    /\ mode' = IF r.res = "Ok" THEN "dsa_built" ELSE "dsa_failed"
    /\ tlast' = tlast

FromPrivateComponents ==
    /\ mode = "dsa_new"
    /\ \E vals \in [Components -> Nums], fault \in Faults :
          Construct("from_private_components", vals,
                    from_private_components(vals, fault), fault)

FromPublicComponents ==
    /\ mode = "dsa_new"
    /\ \E vals \in [Components \ {"priv_key"} -> Nums], fault \in Faults :
          Construct("from_public_components", vals,
                    from_public_components(vals, fault), fault)

\* an accessor of a live key; priv_key() exists on Dsa<Private> only
DsaGet ==
    /\ mode = "dsa_built" /\ cyc > 0
    /\ \E acc \in DOMAIN prev :
          LET ptr == CASE acc = "p" -> p(ctx)
                       [] acc = "q" -> q(ctx)
                       [] acc = "g" -> g(ctx)
                       [] acc = "pub_key" -> pub_key(ctx)
                       [] acc = "priv_key" -> priv_key(ctx)
          IN last' = [NoCall EXCEPT !.op = acc, !.type = ptr,
                                    !.n = IF ptr = "null" THEN 0 ELSE twin[ptr].val]
    /\ UNCHANGED <<ctx, twin, cyc, prev, tlast, mode>>

DsaClone ==
    /\ mode = "dsa_built" /\ cyc > 0 /\ cyc < MaxHandles
    /\ ctx' = to_owned(ctx)
    /\ cyc' = cyc + 1
    /\ last' = [NoCall EXCEPT !.op = "clone"]
    /\ UNCHANGED <<twin, prev, tlast, mode>>

\* a handle goes out of scope: fn drop = ffi::DSA_free
DsaDrop ==
    /\ mode = "dsa_built" /\ cyc > 0
    /\ LET f == DSA_free(ctx, twin)
       IN ctx' = f.dsa /\ twin' = f.bn
    /\ cyc' = cyc - 1
    /\ last' = [NoCall EXCEPT !.op = "drop"]
    /\ UNCHANGED <<prev, tlast, mode>>

NextDsa ==
    \/ FromPrivateComponents
    \/ FromPublicComponents
    \/ DsaGet
    \/ DsaClone
    \/ DsaDrop

SpecDsa == InitDsa /\ [][NextDsa]_vars

IsAccessor == mode = "dsa_built" /\ last.op \in Components

\* C23: on a key built by from_private_components or from_public_components,
\* each of p(), q(), g(), pub_key() and (on a private key) priv_key() returns
\* the BigNum passed for the parameter of that name, with the value the
\* caller gave it.
C23_ComponentsKept ==
    IsAccessor => last.type = last.op /\ last.n = prev[last.op]

\* priv_key() of a private key read a value that differs from the public key's
C23_Witness ==
    /\ IsAccessor /\ last.op = "priv_key"
    /\ prev["priv_key"] # prev["pub_key"]
    /\ last.n = prev["priv_key"]

Held == {ctx.p, ctx.q, ctx.g, ctx.pub_key, ctx.priv_key} \ {"null"}

\* C28: no BigNum and no DSA object is freed twice; while a handle is live
\* the object is not freed, its count is the number of handles and the
\* components it holds are not freed; a component Rust gave up is one the
\* object holds; once the constructor failed, or the last handle is dropped,
\* every BigNum passed and the object (if it was made) are freed exactly
\* once.
C28_ReleasedOnce ==
    mode \in {"dsa_built", "dsa_failed"} =>
        /\ \A a \in Components : twin[a].frees <= 1
        /\ ctx.frees <= 1
        /\ cyc > 0 =>
              /\ ctx.frees = 0 /\ ctx.refs = cyc
              /\ \A a \in Held : twin[a].frees = 0
        /\ \A a \in Components : twin[a].alloc /\ ~twin[a].rust => a \in Held
        /\ cyc = 0 =>
              /\ \A a \in Components : twin[a].alloc => twin[a].frees = 1
              /\ ctx.made => ctx.frees = 1 /\ ctx.refs = 0

\* the key setter failed: the object freed p, q and g, the caller's drop
\* freed the two keys
C28_Witness ==
    /\ mode = "dsa_failed" /\ last.op = "from_private_components"
    /\ last.type = "key" /\ last.res = "Err"
    /\ Held = {"p", "q", "g"} /\ ctx.frees = 1
    /\ twin["pub_key"].rust /\ twin["pub_key"].frees = 1
    /\ ~twin["p"].rust /\ twin["p"].frees = 1

----------------------------------------------------------------------------
(* The caller of the Vec-based methods.  In SpecVec cyc holds the output   *)
(* vector (vec), what it held before the last call (old), and the          *)
(* recipients and encrypted-key vectors of the last seal_init.             *)

\* the calls that append are made while the vector is shorter than this
MaxVec == 3

VecCyc(vec) == [vec |-> vec, old |-> vec, pubs |-> <<>>, eks |-> <<>>]

InitVec ==
    /\ ctx = NewCtx
    /\ last = NoCall
    /\ cyc \in {VecCyc(<<>>), VecCyc(<<2>>)}
    /\ prev = NoPrev
    /\ twin = NewCtx
    /\ tlast = NoCall
    /\ mode = "vec"

Vec == UNCHANGED <<prev, twin, tlast, mode>>

VecInit ==
    /\ Alive /\ mode = "vec"
    /\ \E op \in {"encrypt_init", "decrypt_init"}, type \in CipherNames,
          fault \in BOOLEAN :
          DoInit(op, type, Some(Filler(MaxKeyBuf, 1)), Some(Filler(MaxKeyBuf, 1)), fault)
    /\ cyc' = cyc
    /\ Vec

VecSealInit ==
    /\ Alive /\ mode = "vec" /\ cyc.pubs = <<>> /\ ctx.dir = "Uninitialized"
    /\ \E type \in CipherNames, pub_keys \in Recipients, fault \in BOOLEAN :
          LET encrypted_keys == [i \in 1..Len(pub_keys) |-> <<>>]
              r == seal_init(ctx, type, pub_keys, encrypted_keys,
                             Some(Filler(MaxKeyBuf, 0)),
                             [key |-> Filler(MaxCipherLen, 1),
                              iv |-> Filler(MaxCipherLen, 1)], fault)
          IN /\ ctx' = r.ctx
             /\ last' = [Call("seal_init", r, fault)
                            EXCEPT !.type = type, !.inlen = Len(pub_keys)]
             /\ cyc' = [cyc EXCEPT !.pubs = pub_keys, !.eks = r.eks]
    /\ Vec

VecSetPadding ==
    /\ Alive /\ mode = "vec"
    /\ \E padding \in BOOLEAN : DoSetPadding(padding)
    /\ cyc' = cyc
    /\ Vec

VecUpdate ==
    /\ Alive /\ mode = "vec"
    /\ \E input \in Inputs, fault \in BOOLEAN :
          /\ ctx.pos + Len(input) <= MaxData /\ Len(cyc.vec) < MaxVec
          /\ LET r == cipher_update_vec(ctx, input, cyc.vec, fault)
             IN /\ ctx' = r.ctx
                /\ last' = [Call("cipher_update_vec", r, fault)
                               EXCEPT !.inlen = Len(input)]
                /\ cyc' = [cyc EXCEPT !.vec = r.vec, !.old = cyc.vec]
    /\ Vec

VecFinal ==
    /\ Alive /\ mode = "vec" /\ Len(cyc.vec) < MaxVec
    /\ \E fault \in BOOLEAN :
          LET r == cipher_final_vec(ctx, cyc.vec, fault)
          IN /\ ctx' = r.ctx
             /\ last' = Call("cipher_final_vec", r, fault)
             /\ cyc' = [cyc EXCEPT !.vec = r.vec, !.old = cyc.vec]
    /\ Vec

NextVec ==
    \/ VecInit
    \/ VecSealInit
    \/ VecSetPadding
    \/ VecUpdate
    \/ VecFinal

SpecVec == InitVec /\ [][NextVec]_vars

IsVecCall == mode = "vec" /\ last.op \in {"cipher_update_vec", "cipher_final_vec"}

\* C24: when cipher_update_vec or cipher_final_vec returns Ok(len), the
\* vector is len longer than before, what it held before is unchanged, and
\* the bytes appended are those the engine wrote; so too for a stream cipher.
C24_VecAppends ==
    IsVecCall /\ last.res = "Ok" =>
        /\ Len(cyc.vec) = Len(cyc.old) + last.n
        /\ Take(cyc.vec, Len(cyc.old)) = cyc.old
        /\ Drop(cyc.vec, Len(cyc.old)) = last.out

\* an encryption's final appended the padded last block to a vector that
\* held the block the updates had written
C24_Witness ==
    /\ IsVecCall /\ last.op = "cipher_final_vec" /\ last.res = "Ok"
    /\ last.pre.cipher = "block" /\ last.pre.dir = "Encrypting"
    /\ last.n = PreBlockSize /\ Len(cyc.old) = PreBlockSize
    /\ cyc.vec = cyc.old \o last.out

\* C26: when the engine reports an error, a Vec-based call returns the Err
\* and leaves its output as resized: after a failed cipher_update_vec the
\* vector is input.len() + block size longer than before, after a failed
\* cipher_final_vec one block size longer, after a failed seal_init every
\* encrypted_keys[i] has length pub_keys[i].size(); what the vector held
\* before is unchanged.
C26_NoTruncateOnError ==
    mode = "vec" /\ last.res = "Err" =>
        /\ last.op = "cipher_update_vec" =>
              /\ Len(cyc.vec) = Len(cyc.old) + last.inlen + PreBlockSize
              /\ Take(cyc.vec, Len(cyc.old)) = cyc.old
        /\ last.op = "cipher_final_vec" =>
              /\ Len(cyc.vec) = Len(cyc.old) + PreBlockSize
              /\ Take(cyc.vec, Len(cyc.old)) = cyc.old
        /\ last.op = "seal_init" =>
              /\ Len(cyc.eks) = Len(cyc.pubs)
              /\ \A i \in 1..Len(cyc.pubs) : Len(cyc.eks[i]) = PKeySize(cyc.pubs[i])
              /\ cyc.vec = cyc.old

\* an update of a block cipher failed in the engine and left the vector an
\* input and a block longer
C26_Witness ==
    /\ mode = "vec" /\ last.op = "cipher_update_vec" /\ last.res = "Err"
    /\ last.engine /\ last.pre.cipher = "block" /\ last.inlen > 0
    /\ cyc.old # <<>>
    /\ Len(cyc.vec) = Len(cyc.old) + last.inlen + PreBlockSize

----------------------------------------------------------------------------
(* Two-phase setup.  In SpecTwoPhase ctx is set up in two init calls       *)
(* (descriptor first, key and IV later, with set_key_length and            *)
(* set_iv_length allowed in between) and twin, a second new context, in    *)
(* one call with the same descriptor, key and IV; cyc holds what the       *)
(* caller passed and configured.                                           *)

TpCyc ==
    [op |-> "none", type |-> "none", key_len |-> 0, iv_len |-> 0, custom |-> FALSE]

InitTwoPhase ==
    /\ ctx = NewCtx
    /\ last = NoCall
    /\ cyc = TpCyc
    /\ prev = NoPrev
    /\ twin = NewCtx
    /\ tlast = NoCall
    /\ mode = "tp_new"

Init2(op, c, type, key, iv, fault) ==
    IF op = "encrypt_init" THEN encrypt_init(c, type, key, iv, fault)
    ELSE decrypt_init(c, type, key, iv, fault)

\* phase one: the descriptor alone
TpBind ==
    /\ Alive /\ mode = "tp_new"
    /\ \E op \in {"encrypt_init", "decrypt_init"}, type \in CipherNames,
          fault \in BOOLEAN :
          /\ DoInit(op, type, None, None, fault)
          /\ cyc' = [TpCyc EXCEPT !.op = op, !.type = type,
                                  !.key_len = Cipher(type).key_len,
                                  !.iv_len = Cipher(type).iv_len]
    /\ mode' = IF last'.res = "Ok" THEN "tp_bound" ELSE mode
    /\ UNCHANGED <<prev, twin, tlast>>

\* between the phases: another key or IV length
TpSetLength ==
    /\ Alive /\ mode = "tp_bound"
    /\ \E op \in {"set_key_length", "set_iv_length"}, len \in 1..MaxKeyBuf,
          fault \in BOOLEAN :
          /\ DoSetLength(op, len, fault)
          /\ cyc' = IF last'.res # "Ok" THEN cyc
                    ELSE IF op = "set_key_length"
                    THEN [cyc EXCEPT !.key_len = len, !.custom = TRUE]
                    ELSE [cyc EXCEPT !.iv_len = len, !.custom = TRUE]
    /\ UNCHANGED <<prev, twin, tlast, mode>>

\* phase two: key and IV with no descriptor; the new context gets descriptor,
\* key and IV at once
TpKeyIv ==
    /\ Alive /\ mode = "tp_bound"
    /\ \E key \in {Some(k) : k \in SeqsUpTo({1}, MaxKeyBuf)},
          iv \in {Some(k) : k \in SeqsUpTo(KeyByte, MaxKeyBuf)}, fault \in BOOLEAN :
          LET r == Init2(cyc.op, ctx, "none", key, iv, fault)
              t == Init2(cyc.op, twin, cyc.type, key, iv, fault)
          IN /\ ctx' = r.ctx
             /\ twin' = t.ctx
             /\ last' = [Call(cyc.op, r, fault) EXCEPT !.keylen = OptLen(key),
                                                       !.ivlen = OptLen(iv)]
             /\ tlast' = [Call(cyc.op, t, fault) EXCEPT !.type = cyc.type,
                                                        !.keylen = OptLen(key),
                                                        !.ivlen = OptLen(iv),
                                                        !.pre = Pre(twin)]
             /\ mode' = IF r.res # "Ok" THEN "tp_failed"
                        ELSE IF cyc.custom THEN "tp_custom" ELSE "tp_pair"
    /\ UNCHANGED <<cyc, prev>>

TpPair(op, r, t, fault) ==
    /\ ctx' = r.ctx
    /\ twin' = t.ctx
    /\ last' = Call(op, r, fault)
    /\ tlast' = [Call(op, t, fault) EXCEPT !.pre = Pre(twin)]
    /\ UNCHANGED <<cyc, prev, mode>>

TpUpdate ==
    /\ Alive /\ mode = "tp_pair"
    /\ \E input \in SeqsUpTo(DataByte, MaxIn), fault \in BOOLEAN :
          /\ ctx.pos + Len(input) <= MaxData
          /\ LET output == OutBuf(Len(input) + Desc(ctx).block_size)
             IN TpPair("cipher_update", cipher_update(ctx, input, output, fault),
                       cipher_update(twin, input, output, fault), fault)

TpFinal ==
    /\ Alive /\ mode = "tp_pair"
    /\ \E fault \in BOOLEAN :
          LET output == OutBuf(Desc(ctx).block_size)
          IN TpPair("cipher_final", cipher_final(ctx, output, fault),
                    cipher_final(twin, output, fault), fault)

NextTwoPhase ==
    \/ TpBind
    \/ TpSetLength
    \/ TpKeyIv
    \/ TpUpdate
    \/ TpFinal

SpecTwoPhase == InitTwoPhase /\ [][NextTwoPhase]_vars

\* the second call of the two-phase setup has returned
SecondPhase == mode \in {"tp_failed", "tp_custom", "tp_pair"} /\ IsInit

\* C25: with no length configured in between, the second call of the
\* two-phase setup returns what the one-call setup returns, leaves the
\* context as the one-call setup leaves a new one, and every update and
\* final after it returns the same result and bytes; and the second call
\* panics exactly when the key or the IV passed is shorter than the length
\* last configured on the context (by the descriptor, or by set_key_length
\* or set_iv_length since).
C25_TwoPhase ==
    /\ mode \in {"tp_pair", "tp_failed"} /\ ~cyc.custom /\ last.op # "new"
          /\ (mode = "tp_failed" => IsInit)
          => /\ ctx.cipher # "none" /\ tlast.res = last.res
             /\ last.res = "Ok" => twin = ctx
             /\ last.n = tlast.n /\ last.out = tlast.out
    /\ SecondPhase =>
          (last.res = "Panic" <=>
              last.keylen < cyc.key_len \/ last.ivlen < cyc.iv_len)

\* a two-phase encryption with the block cipher was finalized with the same
\* padded block as the one-call one
C25_Witness ==
    /\ mode = "tp_pair" /\ ~cyc.custom /\ IsFinal
    /\ cyc.type = "block" /\ ctx.dir = "Encrypting" /\ ctx.pos = 1
    /\ last.res = "Ok" /\ last.n = 2 /\ last.out = tlast.out

----------------------------------------------------------------------------
(* Contract violations.  In SpecContract the caller passes every method    *)
(* buffers of every length, recipient lists longer than i32 counts, and    *)
(* keeps what it had before each call: prev is the context before the      *)
(* call, cyc the caller's output buffers before (eks0, iv0, buf0) and      *)
(* after (eks, iv, buf) it.                                                *)

\* a value no cipher of the registry and no generator writes
Canary == 2
NoBufs ==
    [pubs |-> <<>>, eks0 |-> <<>>, eks |-> <<>>, iv0 |-> None, iv |-> None,
     buf0 |-> <<>>, buf |-> <<>>]

InitContract ==
    /\ ctx = NewCtx
    /\ last = NoCall
    /\ cyc = NoBufs
    /\ prev = NewCtx
    /\ twin = NewCtx
    /\ tlast = NoCall
    /\ mode = "contract"

\* the call returned r: the context and the record of the call
Contract(op, r, fault) ==
    /\ ctx' = r.ctx
    /\ prev' = ctx
    /\ last' = Call(op, r, fault)
    /\ UNCHANGED <<twin, tlast, mode>>

\* the caller's buffer of len bytes after the call wrote w to its start
Written(len, w) == WriteInto(Filler(len, Canary), w)

CtInit ==
    /\ Alive /\ mode = "contract"
    /\ \E op \in {"encrypt_init", "decrypt_init"}, type \in Types,
          key \in KeyBufs, iv \in KeyBufs, fault \in BOOLEAN :
          /\ Contract(op, Init2(op, ctx, type, key, iv, fault), fault)
          /\ cyc' = NoBufs

\* seal_init with up to one recipient more than an i32 counts, and as many
\* slots or none
CtSealInit ==
    /\ Alive /\ mode = "contract"
    /\ \E type \in Types, m \in 0..(I32Max + 1), k \in 0..(I32Max + 1),
          ivlen \in -1..MaxKeyBuf, fault \in BOOLEAN :
          /\ k \in {0, m}
          /\ LET pub_keys == [i \in 1..m |-> IF i = 1 THEN 1 ELSE 2]
                 encrypted_keys == [i \in 1..k |-> IF i = 1 THEN <<>> ELSE <<Canary>>]
                 iv == IF ivlen < 0 THEN None ELSE Some(Filler(ivlen, Canary))
                 rand == [key |-> Filler(MaxCipherLen, 1), iv |-> Filler(MaxCipherLen, 1)]
                 r == seal_init(ctx, type, pub_keys, encrypted_keys, iv, rand, fault)
             IN /\ ctx' = r.ctx
                /\ prev' = ctx
                /\ last' = [Call("seal_init", r, fault) EXCEPT !.type = type]
                /\ UNCHANGED <<twin, tlast, mode>>
                /\ cyc' = [NoBufs EXCEPT !.pubs = pub_keys, !.eks0 = encrypted_keys,
                                         !.eks = r.eks, !.iv0 = iv, !.iv = r.iv]

CtOpenInit ==
    /\ Alive /\ mode = "contract"
    /\ \E type \in Types, iv \in KeyBufs, priv \in {None, Some(1)},
          fault \in BOOLEAN :
          /\ Contract("open_init",
                      open_init(ctx, type, Wrap(1, Filler(MaxCipherLen, 1)), iv,
                                priv, fault), fault)
          /\ cyc' = NoBufs

CtUpdate ==
    /\ Alive /\ mode = "contract"
    /\ \E input \in Inputs, output \in Outputs, fault \in BOOLEAN :
          /\ ctx.pos + Len(input) <= MaxData
          /\ LET r == cipher_update(ctx, input, output, fault)
             IN /\ Contract("cipher_update", r, fault)
                /\ cyc' = [NoBufs EXCEPT !.buf0 = Filler(output.len, Canary),
                                         !.buf = Written(output.len, r.out)]

CtFinal ==
    /\ Alive /\ mode = "contract"
    /\ \E len \in 0..MaxOut, fault \in BOOLEAN :
          LET r == cipher_final(ctx, OutBuf(len), fault)
          IN /\ Contract("cipher_final", r, fault)
             /\ cyc' = [NoBufs EXCEPT !.buf0 = Filler(len, Canary),
                                      !.buf = Written(len, r.out)]

CtRandKey ==
    /\ Alive /\ mode = "contract"
    /\ \E buflen \in 0..MaxKeyBuf, fault \in BOOLEAN :
          LET r == rand_key(ctx, buflen, Filler(MaxCipherLen, 1), fault)
          IN /\ Contract("rand_key", r, fault)
             /\ cyc' = [NoBufs EXCEPT !.buf0 = Filler(buflen, Canary),
                                      !.buf = Written(buflen, r.out)]

NextContract ==
    \/ CtInit
    \/ CtSealInit
    \/ CtOpenInit
    \/ CtUpdate
    \/ CtFinal
    \/ CtRandKey

SpecContract == InitContract /\ [][NextContract]_vars

\* the last call ended in a panic
Panicked == mode = "contract" /\ last.res = "Panic"
\* seal_init's checks of the slices and of the IV buffer passed and the
\* recipient count does not fit an i32
CountPanic ==
    /\ last.op = "seal_init"
    /\ SealLenOk(cyc.pubs, cyc.eks0)
    /\ SealIvOk(prev, last.type, cyc.pubs, cyc.iv0)
    /\ ~FitsI32(Len(cyc.pubs))

\* C27 as stated: after a panic of any of the seven methods the engine was
\* not called, the context is the one before the call and every output
\* buffer of the caller is as it was.
C27_Original ==
    Panicked =>
        /\ ~last.engine
        /\ ctx = prev
        /\ cyc.eks = cyc.eks0 /\ cyc.iv = cyc.iv0 /\ cyc.buf = cyc.buf0

\* C27: after a panic of encrypt_init, decrypt_init, seal_init, open_init,
\* cipher_update, cipher_final or rand_key the engine was not called by the
\* call, the context is the one before the call, and the caller's IV and
\* output buffers are as they were; its encrypted_keys are as they were
\* unless the panic is that of seal_init's conversion of the recipient count
\* (the slices are of one length and the IV buffer is long enough), which
\* comes after every slot was resized to its public key's size.
C27_ChecksFirst ==
    Panicked =>
        /\ ~last.engine
        /\ ctx = prev
        /\ cyc.iv = cyc.iv0 /\ cyc.buf = cyc.buf0
        /\ Len(cyc.eks) = Len(cyc.eks0)
        /\ \A i \in 1..Len(cyc.eks) :
              cyc.eks[i] = IF CountPanic
                           THEN Resize(cyc.eks0[i], PKeySize(cyc.pubs[i]))
                           ELSE cyc.eks0[i]

\* seal_init panicked on a recipient list too long to count, with the
\* caller's slots already resized
C27_Witness ==
    /\ Panicked /\ CountPanic
    /\ last.type = "block"
    /\ cyc.eks # cyc.eks0
    /\ ctx = prev
============================================================================
